---- MODULE Spec2Model ----
(***************************************************************************)
(* Model of the data-synchronization layer of the QC logging application:  *)
(* the SheetsService remote client, the localStorage cache and the facade  *)
(* functions getProducts / getInspectors / getQCLogs / saveQCLog /         *)
(* clearLogs / getSettings / saveSettings (src/services/sheetsService.ts). *)
(*                                                                         *)
(* JavaScript values are represented as follows.                           *)
(*   - a string is a TLA+ string; `undefined` is the reserved string       *)
(*     Undefined, so that `a || b` can be computed on cells and fields;    *)
(*   - a number of milliseconds is counted in hours since                  *)
(*     2024-01-01T00:00Z (TLC integers are 32 bit); NaN is the value NaN;  *)
(*   - an array is a sequence, an object a record.                         *)
(***************************************************************************)
EXTENDS Integers, Sequences, FiniteSets, TLC

\* ------------------------------------------------------------------ bounds

\* Number of facade calls that may be in flight at the same time.
MaxCalls == 2
\* Number of identifiers crypto.randomUUID() hands out in one behaviour.
MaxUuids == 2
\* Number of tabs in the metadata of a spreadsheet.
MaxTabs == 2
\* Number of loadData calls of the App in flight at a time.
MaxLoads == 1

\* ------------------------------------------------------- JavaScript values

Undefined == "<undefined>"
NaN == 0 - 1
HoursPerDay == 24

\* a || b on strings: the empty string and undefined are falsy.
Falsy(a) == a = Undefined \/ a = ""
Or(a, b) == IF Falsy(a) THEN b ELSE a

\* row[i] of a JavaScript array (0-based i): undefined beyond its length.
Cell(row, i) == IF i + 1 <= Len(row) THEN row[i + 1] ELSE Undefined

Reverse(s) == [i \in 1..Len(s) |-> s[Len(s) + 1 - i]]

RECURSIVE SelectIdx(_, _, _)
\* Array.prototype.find as an index: the first i >= from with ok[i], else 0.
SelectIdx(ok, from, n) ==
    IF from > n THEN 0
    ELSE IF ok[from] THEN from
    ELSE SelectIdx(ok, from + 1, n)

\* The calendar days the model's clock and check dates range over.
Days == <<"2024-01-01", "2024-01-02", "2024-01-03">>

\* new Date(s).getTime(): UTC midnight of an ISO date, NaN for anything else.
DateParse(s) ==
    IF \E d \in 1..Len(Days) : Days[d] = s
    THEN (CHOOSE d \in 1..Len(Days) : Days[d] = s) * HoursPerDay - HoursPerDay
    ELSE NaN

\* new Date(t).toISOString().split('T')[0]
ToISODate(t) == Days[(t \div HoursPerDay) + 1]

\* crypto.randomUUID(): the n-th identifier drawn in a behaviour.
UUID(n) ==
    CASE n = 1 -> "uuid-1"
      [] n = 2 -> "uuid-2"
      [] n = 3 -> "uuid-3"
      [] n = 4 -> "uuid-4"
      [] n = 5 -> "uuid-5"
      [] n = 6 -> "uuid-6"
      [] n = 7 -> "uuid-7"
      [] n = 8 -> "uuid-8"
      [] OTHER -> "uuid-9"

\* ------------------------------------------------------------------ types.ts

QCStatus == [PASS |-> "PASS", FAIL |-> "FAIL", WARNING |-> "WARNING"]

\* ------------------------------------------------- character level strings

\* The characters of the strings that are parsed character by character
\* (price cells).
Chars(s) ==
    CASE s = "45.00" -> <<"4", "5", ".", "0", "0">>
      [] s = "$120.50" -> <<"$", "1", "2", "0", ".", "5", "0">>
      [] s = "$" -> <<"$">>
      [] s = "abc" -> <<"a", "b", "c">>
      [] s = "$abc" -> <<"$", "a", "b", "c">>
      [] s = "12abc" -> <<"1", "2", "a", "b", "c">>
      [] s = "0" -> <<"0">>
      [] s = "7" -> <<"7">>
      [] OTHER -> <<>>

Digits == <<"0", "1", "2", "3", "4", "5", "6", "7", "8", "9">>
IsDigit(c) == \E d \in 1..10 : Digits[d] = c
DigitVal(c) == (CHOOSE d \in 1..10 : Digits[d] = c) - 1

\* String.prototype.replace('$', ''): removes the first '$' only.
StripDollar(cs) ==
    LET hit == SelectIdx([i \in 1..Len(cs) |-> cs[i] = "$"], 1, Len(cs))
    IN  IF hit = 0 THEN cs
        ELSE SubSeq(cs, 1, hit - 1) \o SubSeq(cs, hit + 1, Len(cs))

RECURSIVE DigitRun(_, _)
\* Length of the run of digits of cs starting at position from.
DigitRun(cs, from) ==
    IF from <= Len(cs) /\ IsDigit(cs[from]) THEN 1 + DigitRun(cs, from + 1) ELSE 0

RECURSIVE DigitsValue(_)
DigitsValue(cs) ==
    IF cs = <<>> THEN 0
    ELSE 10 * DigitsValue(SubSeq(cs, 1, Len(cs) - 1)) + DigitVal(cs[Len(cs)])

\* parseFloat on an unsigned decimal prefix, in hundredths; NaN when the
\* string does not start with a number.
ParseFloat(cs) ==
    LET ni == DigitRun(cs, 1)
        dot == ni + 1 <= Len(cs) /\ cs[ni + 1] = "."
        nf == IF dot THEN DigitRun(cs, ni + 2) ELSE 0
        frac == SubSeq(cs, ni + 2, ni + 1 + nf) \o <<"0", "0">>
    IN  IF ni = 0 /\ nf = 0 THEN [nan |-> TRUE, cents |-> 0]
        ELSE [nan |-> FALSE,
              cents |-> 100 * DigitsValue(SubSeq(cs, 1, ni))
                        + DigitsValue(SubSeq(frac, 1, 2))]

Num(cents) == [nan |-> FALSE, cents |-> cents]

\* ------------------------------------------------------------ Record Mapper

\* fetchProducts: one row of the catalog range to a Product.
RowToProduct(row) ==
    [id |-> Or(Cell(row, 0), "UNKNOWN"),
     name |-> Or(Cell(row, 1), "Unknown Product"),
     category |-> Or(Cell(row, 2), "Uncategorized"),
     standardPrice |->
        LET raw == Cell(row, 3)
            stripped == IF raw = Undefined THEN <<>> ELSE StripDollar(Chars(raw))
        IN  ParseFloat(IF stripped = <<>> THEN <<"0">> ELSE stripped)]

KeepId(x) == ~Falsy(x.id) /\ x.id # "UNKNOWN"

\* rows.map(RowToProduct).filter(p => p.id && p.id !== 'UNKNOWN')
RowsToProducts(rows) == SelectSeq([i \in 1..Len(rows) |-> RowToProduct(rows[i])], KeepId)

\* fetchInspectors: one row of the roster range to an Inspector.
RowToInspector(row) ==
    [id |-> Or(Cell(row, 0), "UNKNOWN"),
     name |-> Or(Cell(row, 1), Or(Cell(row, 0), "Unknown User"))]

RowsToInspectors(rows) ==
    SelectSeq([i \in 1..Len(rows) |-> RowToInspector(rows[i])], KeepId)

\* Mutant: the WARNING branch is missing.
StatusOfCell_NoWarning(c) == IF c = "FAIL" THEN QCStatus.FAIL ELSE QCStatus.PASS

\* The status mapping of fetchLogs.
StatusOfCell(c) ==
    IF c = "WARNING" THEN QCStatus.WARNING
    ELSE IF c = "FAIL" THEN QCStatus.FAIL
    ELSE QCStatus.PASS

\* fetchLogs: one row of the journal range to a QCLog; uuid is the value
\* crypto.randomUUID() returns for this row, today the clock when it is mapped.
RowToLog(row, uuid, today) ==
    LET checkDate == Or(Cell(row, 1), ToISODate(today))
    IN  [id |-> Or(Cell(row, 0), uuid),
         checkDate |-> checkDate,
         shippingOrderNo |-> Or(Cell(row, 2), ""),
         productId |-> Or(Cell(row, 3), ""),
         productName |-> Or(Cell(row, 4), ""),
         inspector |-> Or(Cell(row, 5), ""),
         status |-> StatusOfCell(Cell(row, 6)),
         notes |-> Or(Cell(row, 7), ""),
         aiAnalysis |-> Or(Cell(row, 8), ""),
         timestamp |-> DateParse(checkDate)]

\* Number of rows among the first n whose id cell is empty: each of them
\* draws one identifier.
RECURSIVE Drawn(_, _)
Drawn(rows, n) ==
    IF n = 0 THEN 0
    ELSE Drawn(rows, n - 1) + (IF Falsy(Cell(rows[n], 0)) THEN 1 ELSE 0)

\* Mutant: the rows are returned in storage order.
RowsToLogs_NoReverse(rows, uuids, today) ==
    [i \in 1..Len(rows) |-> RowToLog(rows[i], UUID(uuids + Drawn(rows, i)), today)]

\* rows.map(RowToLog).reverse(); uuids counts the identifiers drawn so far.
RowsToLogs(rows, uuids, today) ==
    Reverse([i \in 1..Len(rows) |->
                RowToLog(rows[i], UUID(uuids + Drawn(rows, i)), today)])

\* Mutant: the column layout from before the shipping order number was added.
LogToRow_OldLayout(log) ==
    <<log.id, log.checkDate, log.productId, log.productName, log.inspector,
      log.status, log.notes, Or(log.aiAnalysis, "")>>

\* appendLog: the row sent for a QCLog.
LogToRow(log) ==
    <<log.id, log.checkDate, Or(log.shippingOrderNo, ""), log.productId,
      log.productName, log.inspector, log.status, log.notes,
      Or(log.aiAnalysis, "")>>

\* --------------------------------------------------------------- variables

VARIABLES
    lsLogs,      \* localStorage[STORAGE_KEY_LOGS]
    lsSettings,  \* localStorage[STORAGE_KEY_SETTINGS]
    remote,      \* the spreadsheet: its tabs and the rows of each tab
    calls,       \* the facade calls in flight, one record per slot
    uuids,       \* identifiers drawn from crypto.randomUUID() so far
    mapper,      \* the Record Mapper applied to one input (SpecMapper)
    dialog,      \* the settings dialog: open or not, and its form state
    client,      \* a SheetsService instance whose methods are called directly
    app,         \* the App component: its state and its pending handlers
    history      \* the records saved since the cache was last empty, oldest first

vars == <<lsLogs, lsSettings, remote, calls, uuids, mapper, dialog, client, app, history>>

\* ------------------------------------------------------------- sample data

DEFAULT_SHEET_ID == "1z8dRzmp_0y5wTADV_9eufGYZ_k4ly87l1k91OPoTZ28"
PRODUCT_GID == 0
USER_GID == 1687857950

INITIAL_PRODUCTS ==
    <<[id |-> "P-1001", name |-> "Titanium Widget A", category |-> "Components",
       standardPrice |-> Num(4500)],
      [id |-> "P-1002", name |-> "Carbon Fiber Plate", category |-> "Materials",
       standardPrice |-> Num(12050)],
      [id |-> "P-1003", name |-> "Display Module X1", category |-> "Electronics",
       standardPrice |-> Num(8999)],
      [id |-> "P-1004", name |-> "Power Unit 500W", category |-> "Electronics",
       standardPrice |-> Num(5500)]>>

INITIAL_INSPECTORS ==
    <<[id |-> "U-001", name |-> "Wang"],
      [id |-> "U-002", name |-> "Chen"],
      [id |-> "U-003", name |-> "Zhang"]>>

\* ------------------------------------------------------- Local Cache Store

\* JSON.stringify drops a property whose value is undefined; JSON.parse gives
\* an object without it, which reads as undefined.
JsonAbsent == "<absent>"
JsonOfLog(l) == [l EXCEPT !.aiAnalysis = IF @ = Undefined THEN JsonAbsent ELSE @]
LogOfJson(j) == [j EXCEPT !.aiAnalysis = IF @ = JsonAbsent THEN Undefined ELSE @]
JsonStringifyLogs(logs) == [raw |-> "json", items |-> [i \in 1..Len(logs) |-> JsonOfLog(logs[i])]]
JsonParseLogs(v) == [i \in 1..Len(v.items) |-> LogOfJson(v.items[i])]

NoItem == [raw |-> "null", items |-> <<>>]

\* What JSON.parse gives for the text `null` and for the text `{}`, as the
\* value of a variable that is expected to hold an array: neither is one.
JsonNull == [js |-> "null"]
JsonObject == [js |-> "object"]
NullValue == <<JsonNull>>
ObjectValue == <<JsonObject>>

\* A localStorage item is absent (raw "null": getItem returns null), the JSON
\* text of the expected shape (raw "json"), a text that is not JSON (raw
\* "garbage": JSON.parse throws), the text `null` (raw "json-null") or the
\* text `{}` (raw "json-object").

\* getQCLogsSync: `if (!raw) return []; return JSON.parse(raw)` inside
\* try/catch, which returns [].
GetQCLogsSync(stored) ==
    IF stored.raw = "null" THEN <<>>
    ELSE IF stored.raw = "json" THEN JsonParseLogs(stored)
    ELSE IF stored.raw = "json-null" THEN NullValue
    ELSE IF stored.raw = "json-object" THEN ObjectValue
    ELSE <<>>

\* `[newLog, ...existingLogs]` throws a TypeError when existingLogs is null or
\* an object that is not iterable.
Iterable(v) == v # NullValue /\ v # ObjectValue

DefaultSettings ==
    [sheetId |-> DEFAULT_SHEET_ID, googleClientId |-> Undefined, googleAccessToken |-> ""]

\* JSON.stringify and JSON.parse on a settings object: a property whose value
\* is undefined is not written and reads as undefined afterwards.
JsonOfSettings(s) == [f \in DOMAIN s |-> IF s[f] = Undefined THEN JsonAbsent ELSE s[f]]
SettingsOfJson(j) == [f \in DOMAIN j |-> IF j[f] = JsonAbsent THEN Undefined ELSE j[f]]

\* The settings object JSON.parse gives for the text `{}`: every property
\* reads as undefined.
EmptySettings ==
    [sheetId |-> Undefined, googleClientId |-> Undefined, googleAccessToken |-> Undefined]

\* getSettings: `if (raw) return JSON.parse(raw)` inside try/catch, else the
\* default object.
GetSettings(stored) ==
    IF stored.raw = "null" THEN DefaultSettings
    ELSE IF stored.raw = "json" THEN SettingsOfJson(stored.value)
    ELSE IF stored.raw = "json-null" THEN JsonNull
    ELSE IF stored.raw = "json-object" THEN EmptySettings
    ELSE DefaultSettings

\* Reading a property of null throws a TypeError.
PropertyThrows(settings) == settings = JsonNull

\* Mutant: the access token is not persisted.
StoredSettings_NoToken(s) ==
    [raw |-> "json", value |-> JsonOfSettings([s EXCEPT !.googleAccessToken = ""])]

\* saveSettings: `localStorage.setItem(STORAGE_KEY_SETTINGS, JSON.stringify(settings))`
StoredSettings(s) == [raw |-> "json", value |-> JsonOfSettings(s)]

\* --------------------------------------------------------- the remote store

Tab(id, title) == [sheetId |-> id, title |-> title]

\* The spreadsheets the application may be connected to.
RemoteStores ==
    { [tabs |-> <<Tab(PRODUCT_GID, "Sheet1"), Tab(USER_GID, "User"), Tab(3, "Log")>>,
       data |-> [t \in {"Sheet1", "User", "Log"} |->
                   CASE t = "Sheet1" ->
                          << <<"P-7", "Steel Bolt", "Hardware", "$120.50">>,
                             <<"", "Ghost">> >>
                     [] t = "User" -> << <<"U-9", "Lin">>, <<"U-8">> >>
                     [] OTHER -> <<>>]],
      [tabs |-> <<Tab(11, "Catalog"), Tab(12, "LOG")>>,
       data |-> [t \in {"Catalog", "LOG"} |->
                   CASE t = "Catalog" -> <<>>
                     [] OTHER ->
                          << <<"r-1", "2024-01-03", "SO-7", "P-7", "Steel Bolt",
                               "Lin", "fail", "dented">>,
                             <<"", "", "SO-9">> >>]] }

HttpOutcomes == {"ok", "status", "network"}
MetaOutcomes == HttpOutcomes \cup {"malformed"}

TabExists(store, title) == title \in DOMAIN store.data

\* The rows a values request for the first `cols` columns of a tab returns.
RangeRows(store, title, cols) ==
    [i \in 1..Len(store.data[title]) |->
        SubSeq(store.data[title][i], 1,
               IF Len(store.data[title][i]) < cols THEN Len(store.data[title][i]) ELSE cols)]

\* The store after one row was appended to a tab.
Appended(store, title, row) ==
    [store EXCEPT !.data[title] = Append(@, row)]

\* ----------------------------------------------------------- SheetsService

Null == "<null>"

\* constructor
NewService(token, sheetId) ==
    [accessToken |-> token, sheetId |-> sheetId, productSheetTitle |-> Null,
     userSheetTitle |-> Null, logSheetTitle |-> "Log"]

\* String.prototype.toLowerCase on tab titles.
ToLowerCase(s) ==
    CASE s = "Log" -> "log"
      [] s = "LOG" -> "log"
      [] s = "Sheet1" -> "sheet1"
      [] s = "User" -> "user"
      [] s = "Catalog" -> "catalog"
      [] s = "Products" -> "products"
      [] s = "Staff" -> "staff"
      [] s = "Misc" -> "misc"
      [] OTHER -> s

\* resolveSheetNames: the early return of its first line.
Resolved(svc) ==
    /\ svc.productSheetTitle # Null /\ svc.productSheetTitle # ""
    /\ svc.userSheetTitle # Null /\ svc.userSheetTitle # ""

FindTab(tabs, ok) == SelectIdx(ok, 1, Len(tabs))

\* Mutant: the catalog title has no positional fallback.
ResolveSheetNames_NoPositional(svc, outcome, tabs) ==
    IF outcome = "ok"
    THEN LET p == FindTab(tabs, [i \in 1..Len(tabs) |-> tabs[i].sheetId = PRODUCT_GID])
             u == FindTab(tabs, [i \in 1..Len(tabs) |-> tabs[i].sheetId = USER_GID])
             l == FindTab(tabs, [i \in 1..Len(tabs) |-> ToLowerCase(tabs[i].title) = "log"])
         IN  [svc EXCEPT
                !.productSheetTitle = IF p # 0 THEN tabs[p].title ELSE "Sheet1",
                !.userSheetTitle = IF u # 0 THEN tabs[u].title ELSE "User",
                !.logSheetTitle = IF l # 0 THEN tabs[l].title ELSE @]
    ELSE [svc EXCEPT !.productSheetTitle = "Sheet1", !.userSheetTitle = "User"]

\* Mutant: the roster title falls back to the first tab of the list.
ResolveSheetNames_UserPositional(svc, outcome, tabs) ==
    IF outcome = "ok"
    THEN LET p == FindTab(tabs, [i \in 1..Len(tabs) |-> tabs[i].sheetId = PRODUCT_GID])
             u == FindTab(tabs, [i \in 1..Len(tabs) |-> tabs[i].sheetId = USER_GID])
             l == FindTab(tabs, [i \in 1..Len(tabs) |-> ToLowerCase(tabs[i].title) = "log"])
         IN  [svc EXCEPT
                !.productSheetTitle =
                    IF p # 0 THEN tabs[p].title
                    ELSE Or(IF Len(tabs) > 0 THEN tabs[1].title ELSE Undefined, "Sheet1"),
                !.userSheetTitle =
                    IF u # 0 THEN tabs[u].title
                    ELSE Or(IF Len(tabs) > 0 THEN tabs[1].title ELSE Undefined, "User"),
                !.logSheetTitle = IF l # 0 THEN tabs[l].title ELSE @]
    ELSE [svc EXCEPT !.productSheetTitle = "Sheet1", !.userSheetTitle = "User"]

\* resolveSheetNames after its metadata request ended with `outcome`.
ResolveSheetNames(svc, outcome, tabs) ==
    IF outcome = "ok"
    THEN LET p == FindTab(tabs, [i \in 1..Len(tabs) |-> tabs[i].sheetId = PRODUCT_GID])
             u == FindTab(tabs, [i \in 1..Len(tabs) |-> tabs[i].sheetId = USER_GID])
             l == FindTab(tabs, [i \in 1..Len(tabs) |-> ToLowerCase(tabs[i].title) = "log"])
         IN  [svc EXCEPT
                !.productSheetTitle =
                    IF p # 0 THEN tabs[p].title
                    ELSE Or(IF Len(tabs) > 0 THEN tabs[1].title ELSE Undefined, "Sheet1"),
                !.userSheetTitle = IF u # 0 THEN tabs[u].title ELSE "User",
                !.logSheetTitle = IF l # 0 THEN tabs[l].title ELSE @]
    ELSE [svc EXCEPT !.productSheetTitle = "Sheet1", !.userSheetTitle = "User"]

\* No instance is in direct use.
NoClient == [svc |-> NewService("", ""), metaRequests |-> 0, lastMeta |-> "none"]

\* The error a request that did not succeed ends in: the Error the method
\* throws on a non-success status, else the one fetch itself threw.
NoError == "<no error>"
FetchError == "TypeError: Failed to fetch"
ErrorOf(outcome, message) ==
    CASE outcome = "ok" -> NoError
      [] outcome = "status" -> message
      [] OTHER -> FetchError

\* Mutant: fetchProducts answers a failure with [] as the other reads do.
FetchProducts_Swallow(outcome, rows) ==
    IF outcome = "ok"
    THEN [threw |-> FALSE, value |-> RowsToProducts(rows), error |-> NoError]
    ELSE [threw |-> FALSE, value |-> <<>>, error |-> NoError]

\* fetchProducts after its values request: a failure is logged and rethrown.
FetchProducts(outcome, rows) ==
    IF outcome = "ok"
    THEN [threw |-> FALSE, value |-> RowsToProducts(rows), error |-> NoError]
    ELSE [threw |-> TRUE, value |-> <<>>,
          error |-> ErrorOf(outcome, "Failed to fetch products from sheet")]

\* Mutant: fetchInspectors rethrows as fetchProducts does.
FetchInspectors_Rethrow(outcome, rows) ==
    IF outcome = "ok"
    THEN [threw |-> FALSE, value |-> RowsToInspectors(rows), error |-> NoError]
    ELSE [threw |-> TRUE, value |-> <<>>,
          error |-> ErrorOf(outcome, "Failed to fetch inspectors")]

\* fetchInspectors after its values request: a failure yields [].
FetchInspectors(outcome, rows) ==
    IF outcome = "ok"
    THEN [threw |-> FALSE, value |-> RowsToInspectors(rows), error |-> NoError]
    ELSE [threw |-> FALSE, value |-> <<>>, error |-> NoError]

\* fetchLogs after its values request: a failure yields [].
FetchLogs(outcome, rows, drawn, today) ==
    IF outcome = "ok"
    THEN [threw |-> FALSE, value |-> RowsToLogs(rows, drawn, today), error |-> NoError]
    ELSE [threw |-> FALSE, value |-> <<>>, error |-> NoError]

\* appendLog after its append request: a failure is logged and rethrown.
AppendLog(outcome) ==
    [threw |-> outcome # "ok", error |-> ErrorOf(outcome, "Failed to save to Google Sheet")]

\* ------------------------------------------------------- Data Access Facade

Calls == 1..MaxCalls

\* What the wall clock (Date.now(), new Date()) may read when it is looked at:
\* midnight of the first day and noon of the second.
Times == {0, HoursPerDay + HoursPerDay \div 2}

\* The settled promise of a call is taken by its caller (a microtask) before
\* any other event is handled.
NoneDone == \A c \in Calls : calls[c].pc # "done"

\* The saveQCLog arguments the form submits (Omit<QCLog, 'id' | 'timestamp'>).
LogInputs ==
    { [productId |-> "P-1001", productName |-> "Titanium Widget A",
       shippingOrderNo |-> "SO-1", checkDate |-> "2024-01-01", inspector |-> "Wang",
       notes |-> "", status |-> QCStatus.PASS, aiAnalysis |-> Undefined],
      [productId |-> "P-7", productName |-> "Steel Bolt",
       shippingOrderNo |-> "", checkDate |-> "2024-01-02", inspector |-> "Lin",
       notes |-> "scratched", status |-> QCStatus.FAIL,
       aiAnalysis |-> "Defect: scratch"] }

\* The settings the user may save.
SettingsChoices ==
    { [sheetId |-> DEFAULT_SHEET_ID, googleClientId |-> Undefined, googleAccessToken |-> ""],
      [sheetId |-> DEFAULT_SHEET_ID, googleClientId |-> "client-1",
       googleAccessToken |-> "ya29.token"] }

NoService == NewService("", "")

\* A slot with no call in it.
IdleCall ==
    [op |-> "none", pc |-> "idle", svc |-> NoService, arg |-> <<>>, newLog |-> <<>>,
     events |-> <<>>, http |-> "none", rows |-> <<>>, fetched |-> <<>>,
     threw |-> FALSE, outcome |-> "pending", result |-> <<>>]

\* A new call takes the first free slot.
FreeSlot(c) ==
    /\ NoneDone
    /\ calls[c].pc = "idle"
    /\ \A d \in 1..(c - 1) : calls[d].pc # "idle"

\* `{ ...log, id: crypto.randomUUID(), timestamp: Date.now() }`
NewLog(log, uuid, t) ==
    [id |-> uuid, productId |-> log.productId, productName |-> log.productName,
     shippingOrderNo |-> log.shippingOrderNo, checkDate |-> log.checkDate,
     inspector |-> log.inspector, notes |-> log.notes, status |-> log.status,
     aiAnalysis |-> log.aiAnalysis, timestamp |-> t]

\* Mutant: the new record goes to the end of the sequence.
UpdatedLogs_AppendAtEnd(newLog, stored) ==
    JsonStringifyLogs(GetQCLogsSync(stored) \o <<newLog>>)

\* Mutant: the stored sequence is overwritten by the new record alone.
UpdatedLogs_DropOld(newLog, stored) == JsonStringifyLogs(<<newLog>>)

\* Mutant: the new record takes the place of the newest stored one.
UpdatedLogs_ReplaceHead(newLog, stored) ==
    JsonStringifyLogs(<<newLog>> \o (IF GetQCLogsSync(stored) = <<>> THEN <<>>
                                     ELSE Tail(GetQCLogsSync(stored))))

\* `[newLog, ...existingLogs]`, serialized for localStorage.setItem.
UpdatedLogs(newLog, stored) == JsonStringifyLogs(<<newLog>> \o GetQCLogsSync(stored))

\* The promise of a call settles.
Settle(call, outcome, value) ==
    [call EXCEPT !.pc = "done", !.outcome = outcome, !.result = value]

\* A read of the facade up to its first await: with a token it builds a
\* SheetsService whose fetch starts by resolving the tab titles (a metadata
\* request); without one it waits for the 300 ms timer of the fallback.
\* `settings.googleAccessToken` is read outside any try block: when it throws
\* the promise of the async function is rejected.
StartRead(op, settings) ==
    IF PropertyThrows(settings)
    THEN Settle([IdleCall EXCEPT !.op = op], "rejected", <<>>)
    ELSE IF ~Falsy(settings.googleAccessToken)
    THEN LET svc == NewService(settings.googleAccessToken, settings.sheetId)
         IN  IF Resolved(svc)
             THEN [IdleCall EXCEPT !.op = op, !.pc = "data", !.svc = svc,
                                   !.events = <<"values">>]
             ELSE [IdleCall EXCEPT !.op = op, !.pc = "meta", !.svc = svc,
                                   !.events = <<"meta">>]
    ELSE [IdleCall EXCEPT !.op = op, !.pc = "timer"]

GetProductsCall(c) ==
    /\ FreeSlot(c)
    /\ calls' = [calls EXCEPT ![c] = StartRead("getProducts", GetSettings(lsSettings))]
    /\ UNCHANGED <<lsLogs, lsSettings, remote, uuids, mapper, dialog, client, app, history>>

GetInspectorsCall(c) ==
    /\ FreeSlot(c)
    /\ calls' = [calls EXCEPT ![c] = StartRead("getInspectors", GetSettings(lsSettings))]
    /\ UNCHANGED <<lsLogs, lsSettings, remote, uuids, mapper, dialog, client, app, history>>

GetQCLogsCall(c) ==
    /\ FreeSlot(c)
    /\ calls' = [calls EXCEPT ![c] = StartRead("getQCLogs", GetSettings(lsSettings))]
    /\ UNCHANGED <<lsLogs, lsSettings, remote, uuids, mapper, dialog, client, app, history>>

\* saveQCLog up to its first await: the record is built and written to
\* localStorage, then with a token appendLog starts by resolving the titles.
StartSave(log, newLog, settings) ==
    IF PropertyThrows(settings)
    THEN Settle([IdleCall EXCEPT !.op = "saveQCLog", !.arg = <<log>>, !.newLog = <<newLog>>,
                                 !.events = <<"write">>],
                "rejected", <<>>)
    ELSE IF ~Falsy(settings.googleAccessToken)
    THEN LET svc == NewService(settings.googleAccessToken, settings.sheetId)
         IN  IF Resolved(svc)
             THEN [IdleCall EXCEPT !.op = "saveQCLog", !.pc = "append", !.svc = svc,
                                   !.arg = <<log>>, !.newLog = <<newLog>>,
                                   !.events = <<"write", "append">>]
             ELSE [IdleCall EXCEPT !.op = "saveQCLog", !.pc = "meta", !.svc = svc,
                                   !.arg = <<log>>, !.newLog = <<newLog>>,
                                   !.events = <<"write", "meta">>]
    ELSE Settle([IdleCall EXCEPT !.op = "saveQCLog", !.arg = <<log>>, !.newLog = <<newLog>>,
                                 !.events = <<"write">>],
                "resolved", <<newLog>>)

SaveQCLogCall(c, log, now) ==
    /\ FreeSlot(c)
    /\ uuids < MaxUuids
    /\ LET newLog == NewLog(log, UUID(uuids + 1), now)
       IN  IF Iterable(GetQCLogsSync(lsLogs))
           THEN /\ lsLogs' = UpdatedLogs(newLog, lsLogs)
                /\ calls' = [calls EXCEPT
                                ![c] = StartSave(log, newLog, GetSettings(lsSettings))]
                /\ history' = Append(history, newLog)
           ELSE \* the spread throws before setItem: the promise is rejected
                /\ calls' = [calls EXCEPT ![c] =
                                Settle([IdleCall EXCEPT !.op = "saveQCLog", !.arg = <<log>>,
                                                        !.newLog = <<newLog>>],
                                       "rejected", <<>>)]
                /\ UNCHANGED <<lsLogs, history>>
    /\ uuids' = uuids + 1
    /\ UNCHANGED <<lsSettings, remote, mapper, dialog, client, app>>

\* The call after resolveSheetNames: it issues its values or append request.
AfterResolve(call, svc) ==
    [call EXCEPT !.svc = svc,
                 !.pc = IF call.op = "saveQCLog" THEN "append" ELSE "data",
                 !.events = Append(@, IF call.op = "saveQCLog" THEN "append" ELSE "values")]

\* The metadata request of a call ends.
MetaResponse(c, outcome) ==
    /\ NoneDone
    /\ calls[c].pc = "meta"
    /\ calls' = [calls EXCEPT ![c] =
                    AfterResolve(@, ResolveSheetNames(@.svc, outcome, remote.tabs))]
    /\ UNCHANGED <<lsLogs, lsSettings, remote, uuids, mapper, dialog, client, app, history>>

\* A values request for a tab the spreadsheet does not have is refused.
ValuesOutcome(title, outcome) == outcome = "ok" => TabExists(remote, title)
RowsOf(title, cols, outcome) ==
    IF outcome = "ok" THEN RangeRows(remote, title, cols) ELSE <<>>

\* Mutant: an empty remote catalog is returned as it is.
GetProductsAfter_NoLengthCheck(call, r) ==
    IF ~r.threw
    THEN Settle(call, "resolved", r.value)
    ELSE [call EXCEPT !.pc = "timer"]

\* Mutant: fetchProducts' exception is not caught.
GetProductsAfter_NoCatch(call, r) ==
    IF r.threw THEN Settle(call, "rejected", <<>>)
    ELSE IF Len(r.value) > 0 THEN Settle(call, "resolved", r.value)
    ELSE [call EXCEPT !.pc = "timer"]

\* getProducts after fetchProducts: a non-empty result is returned, an empty
\* one or an exception leads to the timer of the fallback.
GetProductsAfter(call, r) ==
    IF ~r.threw /\ Len(r.value) > 0
    THEN Settle(call, "resolved", r.value)
    ELSE [call EXCEPT !.pc = "timer"]

ProductsResponse(c, outcome) ==
    /\ NoneDone
    /\ calls[c].pc = "data" /\ calls[c].op = "getProducts"
    /\ ValuesOutcome(calls[c].svc.productSheetTitle, outcome)
    /\ LET rows == RowsOf(calls[c].svc.productSheetTitle, 4, outcome)
           r == FetchProducts(outcome, rows)
       IN  calls' = [calls EXCEPT ![c] =
                GetProductsAfter([@ EXCEPT !.http = outcome, !.rows = rows,
                                           !.fetched = r.value, !.threw = r.threw], r)]
    /\ UNCHANGED <<lsLogs, lsSettings, remote, uuids, mapper, dialog, client, app, history>>

\* getInspectors after fetchInspectors.
GetInspectorsAfter(call, r) ==
    IF ~r.threw /\ Len(r.value) > 0
    THEN Settle(call, "resolved", r.value)
    ELSE [call EXCEPT !.pc = "timer"]

InspectorsResponse(c, outcome) ==
    /\ NoneDone
    /\ calls[c].pc = "data" /\ calls[c].op = "getInspectors"
    /\ ValuesOutcome(calls[c].svc.userSheetTitle, outcome)
    /\ LET rows == RowsOf(calls[c].svc.userSheetTitle, 2, outcome)
           r == FetchInspectors(outcome, rows)
       IN  calls' = [calls EXCEPT ![c] =
                GetInspectorsAfter([@ EXCEPT !.http = outcome, !.rows = rows,
                                             !.fetched = r.value, !.threw = r.threw], r)]
    /\ UNCHANGED <<lsLogs, lsSettings, remote, uuids, mapper, dialog, client, app, history>>

\* Mutant: an empty remote journal falls back to the cache.
GetQCLogsAfter_EmptyFallsBack(call, r) ==
    IF ~r.threw /\ Len(r.value) > 0
    THEN Settle(call, "resolved", r.value)
    ELSE [call EXCEPT !.pc = "timer"]

\* getQCLogs after fetchLogs: `if (sheetLogs) return sheetLogs`, and an
\* array is truthy whatever its length.
GetQCLogsAfter(call, r) ==
    IF ~r.threw
    THEN Settle(call, "resolved", r.value)
    ELSE [call EXCEPT !.pc = "timer"]

LogsResponse(c, outcome, now) ==
    /\ NoneDone
    /\ calls[c].pc = "data" /\ calls[c].op = "getQCLogs"
    /\ ValuesOutcome(calls[c].svc.logSheetTitle, outcome)
    /\ LET rows == RowsOf(calls[c].svc.logSheetTitle, 9, outcome)
           r == FetchLogs(outcome, rows, uuids, now)
       IN  /\ uuids + Drawn(rows, Len(rows)) <= MaxUuids
           /\ uuids' = uuids + Drawn(rows, Len(rows))
           /\ calls' = [calls EXCEPT ![c] =
                GetQCLogsAfter([@ EXCEPT !.http = outcome, !.rows = rows,
                                         !.fetched = r.value, !.threw = r.threw], r)]
    /\ UNCHANGED <<lsLogs, lsSettings, remote, mapper, dialog, client, app, history>>

\* Mutant: appendLog's exception is not caught.
SaveQCLogAfter_NoCatch(call, r) ==
    IF r.threw THEN Settle(call, "rejected", <<>>) ELSE Settle(call, "resolved", call.newLog)

\* Mutant: a failed append is tried once more.
SaveQCLogAfter_Retry(call, r) ==
    IF r.threw /\ Len(call.events) < 4
    THEN [call EXCEPT !.pc = "append", !.events = Append(@, "append")]
    ELSE Settle(call, "resolved", call.newLog)

\* saveQCLog after appendLog: an exception is logged, the record returned.
SaveQCLogAfter(call, r) == Settle(call, "resolved", call.newLog)

\* Mutant: a failed append takes the record out of the cache again.
SaveQCLogCache_Rollback(stored, call, r) ==
    IF r.threw
    THEN JsonStringifyLogs(SelectSeq(GetQCLogsSync(stored),
                                     LAMBDA l : l.id # call.newLog[1].id))
    ELSE stored

\* What the rest of saveQCLog leaves in localStorage.
SaveQCLogCache(stored, call, r) == stored

AppendResponse(c, outcome) ==
    /\ NoneDone
    /\ calls[c].pc = "append"
    /\ ValuesOutcome(calls[c].svc.logSheetTitle, outcome)
    /\ LET r == AppendLog(outcome)
       IN  /\ calls' = [calls EXCEPT ![c] =
                SaveQCLogAfter([@ EXCEPT !.http = outcome, !.threw = r.threw], r)]
           /\ lsLogs' = SaveQCLogCache(lsLogs, calls[c], r)
    /\ remote' = IF outcome = "ok"
                 THEN Appended(remote, calls[c].svc.logSheetTitle,
                               LogToRow(calls[c].newLog[1]))
                 ELSE remote
    /\ UNCHANGED <<lsSettings, uuids, mapper, dialog, client, app, history>>

\* What the 300 ms timer of a fallback resolves the promise with.
Fallback(op, stored) ==
    CASE op = "getProducts" -> INITIAL_PRODUCTS
      [] op = "getInspectors" -> INITIAL_INSPECTORS
      [] OTHER -> GetQCLogsSync(stored)

TimerFire(c) ==
    /\ NoneDone
    /\ calls[c].pc = "timer"
    /\ calls' = [calls EXCEPT ![c] = Settle(@, "resolved", Fallback(@.op, lsLogs))]
    /\ UNCHANGED <<lsLogs, lsSettings, remote, uuids, mapper, dialog, client, app, history>>

\* The caller has taken the settled promise's value: the slot is free again.
Return(c) ==
    /\ calls[c].pc = "done"
    /\ calls' = [calls EXCEPT ![c] = IdleCall]
    /\ UNCHANGED <<lsLogs, lsSettings, remote, uuids, mapper, dialog, client, app, history>>

\* getSettings, called when the settings dialog opens: it is synchronous and
\* its value is the call's result.
GetSettingsCall(c) ==
    /\ FreeSlot(c)
    /\ calls' = [calls EXCEPT ![c] =
                    Settle([IdleCall EXCEPT !.op = "getSettings"], "resolved",
                           <<GetSettings(lsSettings)>>)]
    /\ UNCHANGED <<lsLogs, lsSettings, remote, uuids, mapper, dialog, client, app, history>>

\* clearLogs
ClearLogs ==
    /\ NoneDone
    /\ lsLogs' = NoItem
    /\ history' = <<>>
    /\ UNCHANGED <<lsSettings, remote, calls, uuids, mapper, dialog, client, app>>

\* saveSettings
SaveSettings(s) ==
    /\ NoneDone
    /\ lsSettings' = StoredSettings(s)
    /\ UNCHANGED <<lsLogs, remote, calls, uuids, mapper, dialog, client, app, history>>

\* ---------------------------------------------------------- SettingsModal

\* useState of the component: the form state before the dialog was ever
\* opened, no token request pending.
InitialDialog ==
    [isOpen |-> FALSE,
     settings |-> [sheetId |-> "", googleClientId |-> "", googleAccessToken |-> ""],
     isAuthorizing |-> FALSE]

\* What the user may type into a field of the form.
FieldValues ==
    [sheetId |-> {"sheet-2"}, googleClientId |-> {"client-1"},
     googleAccessToken |-> {"ya29.token"}]

\* What the Google token client hands to the callback: a response with an
\* access token or one without.
TokenResponses == {"ya29.oauth", Undefined}

\* The settings button of the App opens the dialog; the effect on isOpen
\* loads the form from getSettings().
OpenDialog ==
    /\ ~dialog.isOpen
    /\ dialog' = [dialog EXCEPT !.isOpen = TRUE, !.settings = GetSettings(lsSettings)]
    /\ UNCHANGED <<lsLogs, lsSettings, remote, calls, uuids, mapper, client, app, history>>

\* onChange of one of the three inputs.
EditField(f, v) ==
    /\ dialog.isOpen
    /\ dialog.settings[f] # v
    /\ dialog' = [dialog EXCEPT !.settings[f] = v]
    /\ UNCHANGED <<lsLogs, lsSettings, remote, calls, uuids, mapper, client, app, history>>

\* handleAuthClick: the button is enabled with a client id and no request
\* pending; the token client asks Google for a token.
HandleAuthClick ==
    /\ dialog.isOpen
    /\ ~Falsy(dialog.settings.googleClientId) /\ ~dialog.isAuthorizing
    /\ dialog' = [dialog EXCEPT !.isAuthorizing = TRUE]
    /\ UNCHANGED <<lsLogs, lsSettings, remote, calls, uuids, mapper, client, app, history>>

\* The callback of initTokenClient, whether the dialog is still open or not.
TokenCallback(accessToken) ==
    /\ dialog.isAuthorizing
    /\ dialog' = [dialog EXCEPT
                     !.settings.googleAccessToken =
                         IF ~Falsy(accessToken) THEN accessToken ELSE @,
                     !.isAuthorizing = FALSE]
    /\ UNCHANGED <<lsLogs, lsSettings, remote, calls, uuids, mapper, client, app, history>>

\* handleSave: saveSettings(settings); onSave(); onClose(). onSave is the
\* App's loadData, whose three reads are the read actions of the facade.
HandleSave ==
    /\ dialog.isOpen
    /\ lsSettings' = StoredSettings(dialog.settings)
    /\ dialog' = [dialog EXCEPT !.isOpen = FALSE]
    /\ UNCHANGED <<lsLogs, remote, calls, uuids, mapper, client, app, history>>

\* The Cancel button and the X button: onClose().
CloseDialog ==
    /\ dialog.isOpen
    /\ dialog' = [dialog EXCEPT !.isOpen = FALSE]
    /\ UNCHANGED <<lsLogs, lsSettings, remote, calls, uuids, mapper, client, app, history>>

\* ------------------------------------ SheetsService, its methods called directly

\* The tabs a spreadsheet may have, and the tab lists of its metadata: up to
\* MaxTabs different tabs in any order.
TabPool ==
    { Tab(PRODUCT_GID, "Products"), Tab(USER_GID, "Staff"), Tab(5, "LOG"), Tab(7, "Misc") }

TabLists ==
    { l \in UNION { [1..n -> TabPool] : n \in 0..MaxTabs } :
        \A i, j \in 1..Len(l) : l[i] = l[j] => i = j }

\* Every tab of such a spreadsheet holds the same row below its header.
ClientStores ==
    { [tabs |-> l,
       data |-> [t \in {l[i].title : i \in 1..Len(l)} |->
                   << <<"P-7", "Steel Bolt", "Hardware", "$120.50">> >>]] :
      l \in TabLists }

ClientMethods == {"fetchProducts", "fetchInspectors", "fetchLogs", "appendLog"}

\* The QCLog handed to appendLog: its caller has drawn the identifier.
ClientLogs(uuid) == { NewLog(x, uuid, 0) : x \in {l \in LogInputs : l.status = QCStatus.FAIL} }

\* A method of the instance up to its first request: `await
\* this.resolveSheetNames()` returns at once when both titles are set and
\* issues the metadata request otherwise.
ClientCall(c, op) ==
    /\ FreeSlot(c)
    /\ op = "appendLog" => uuids < MaxUuids
    /\ uuids' = IF op = "appendLog" THEN uuids + 1 ELSE uuids
    /\ \E log \in ClientLogs(UUID(uuids + 1)) :
          LET call == [IdleCall EXCEPT !.op = op, !.svc = client.svc,
                                       !.arg = IF op = "appendLog" THEN <<log>> ELSE <<>>]
              request == IF op = "appendLog" THEN "append" ELSE "values"
          IN  IF Resolved(client.svc)
              THEN /\ calls' = [calls EXCEPT ![c] =
                                  [call EXCEPT !.pc = "data", !.events = <<request>>]]
                   /\ UNCHANGED client
              ELSE /\ calls' = [calls EXCEPT ![c] =
                                  [call EXCEPT !.pc = "meta", !.events = <<"meta">>]]
                   /\ client' = [client EXCEPT !.metaRequests = @ + 1]
    /\ UNCHANGED <<lsLogs, lsSettings, remote, mapper, dialog, app, history>>

\* The metadata request of a method call ends: resolveSheetNames sets the
\* titles of the instance and the method issues its own request with them.
ClientMetaResponse(c, outcome) ==
    /\ NoneDone
    /\ calls[c].pc = "meta"
    /\ LET svc == ResolveSheetNames(client.svc, outcome, remote.tabs)
       IN  /\ client' = [client EXCEPT !.svc = svc, !.lastMeta = outcome]
           /\ calls' = [calls EXCEPT ![c] =
                          [@ EXCEPT !.svc = svc, !.pc = "data",
                                    !.events = Append(@, IF calls[c].op = "appendLog"
                                                         THEN "append" ELSE "values")]]
    /\ UNCHANGED <<lsLogs, lsSettings, remote, uuids, mapper, dialog, app, history>>

\* The promise of a method: rejected with the error when the method threw.
SettleMethod(call, r) ==
    IF r.threw THEN Settle(call, "rejected", <<r.error>>)
    ELSE Settle(call, "resolved", r.value)

\* The values request of fetchProducts, fetchInspectors or fetchLogs ends.
ClientValuesResponse(c, outcome, now) ==
    /\ NoneDone
    /\ calls[c].pc = "data" /\ calls[c].op \in ClientMethods \ {"appendLog"}
    /\ LET op == calls[c].op
           title == CASE op = "fetchProducts" -> calls[c].svc.productSheetTitle
                      [] op = "fetchInspectors" -> calls[c].svc.userSheetTitle
                      [] OTHER -> calls[c].svc.logSheetTitle
           cols == CASE op = "fetchProducts" -> 4
                     [] op = "fetchInspectors" -> 2
                     [] OTHER -> 9
           rows == RowsOf(title, cols, outcome)
           r == CASE op = "fetchProducts" -> FetchProducts(outcome, rows)
                  [] op = "fetchInspectors" -> FetchInspectors(outcome, rows)
                  [] OTHER -> FetchLogs(outcome, rows, uuids, now)
           drawn == IF op = "fetchLogs" THEN Drawn(rows, Len(rows)) ELSE 0
       IN  /\ ValuesOutcome(title, outcome)
           /\ uuids + drawn <= MaxUuids
           /\ uuids' = uuids + drawn
           /\ calls' = [calls EXCEPT ![c] =
                          SettleMethod([@ EXCEPT !.http = outcome, !.rows = rows,
                                                 !.fetched = r.value, !.threw = r.threw], r)]
    /\ UNCHANGED <<lsLogs, lsSettings, remote, mapper, dialog, client, app, history>>

\* The append request of appendLog ends.
ClientAppendResponse(c, outcome) ==
    /\ NoneDone
    /\ calls[c].pc = "data" /\ calls[c].op = "appendLog"
    /\ ValuesOutcome(calls[c].svc.logSheetTitle, outcome)
    /\ LET r == AppendLog(outcome)
       IN  calls' = [calls EXCEPT ![c] =
                       SettleMethod([@ EXCEPT !.http = outcome, !.threw = r.threw],
                                    [threw |-> r.threw, value |-> <<>>,
                                     error |-> r.error])]
    /\ remote' = IF outcome = "ok"
                 THEN Appended(remote, calls[c].svc.logSheetTitle, LogToRow(calls[c].arg[1]))
                 ELSE remote
    /\ UNCHANGED <<lsLogs, lsSettings, uuids, mapper, dialog, client, app, history>>

\* ------------------------------------------------------------------- App

View == [DASHBOARD |-> "DASHBOARD", NEW_ENTRY |-> "NEW_ENTRY", LOGS |-> "LOGS"]

Loads == 1..MaxLoads

\* No loadData in the slot; a loadData with its three reads.
NoLoad == [active |-> FALSE, reads |-> <<>>, savesBefore |-> 0]

\* No handleCreateLog is pending.
NoCreate == [active |-> FALSE, call |-> IdleCall]

\* The component is not in use.
NoApp == [mounted |-> FALSE]

\* useState of App, before its mount effect has run.
InitialApp ==
    [mounted |-> FALSE, currentView |-> View.DASHBOARD, products |-> <<>>,
     inspectors |-> <<>>, logs |-> <<>>, loading |-> TRUE, isConnected |-> FALSE,
     loads |-> [l \in Loads |-> NoLoad], create |-> NoCreate]

\* The early return of the render: the loading screen replaces the page.
LoadingScreen == app.loading /\ Len(app.logs) = 0 /\ Len(app.products) = 0

\* Promise.all of a loadData has settled: every read is done, or one rejected.
AllSettled(l) ==
    /\ app.loads[l].active
    /\ \/ \A i \in 1..3 : app.loads[l].reads[i].pc = "done"
       \/ \E i \in 1..3 : app.loads[l].reads[i].outcome = "rejected"

\* No continuation of an awaited promise is due: such continuations run
\* before the next event is handled.
AppQuiet ==
    /\ app.mounted
    /\ app.create.call.pc # "done"
    /\ \A l \in Loads : ~AllSettled(l)

\* loadData up to its await: the three reads of the facade start together.
StartLoad(l) ==
    LET settings == GetSettings(lsSettings)
    IN  [app EXCEPT !.mounted = TRUE, !.loading = TRUE,
                    !.loads[l] = [active |-> TRUE,
                                  reads |-> <<StartRead("getProducts", settings),
                                              StartRead("getInspectors", settings),
                                              StartRead("getQCLogs", settings)>>,
                                  savesBefore |-> Len(history)]]

\* loadData, run by the mount effect and by the refresh button of the
\* dashboard.
LoadData(l) ==
    /\ ~app.loads[l].active
    /\ \/ ~app.mounted
       \/ AppQuiet /\ ~LoadingScreen /\ app.currentView = View.DASHBOARD
    /\ app' = StartLoad(l)
    /\ UNCHANGED <<lsLogs, lsSettings, remote, calls, uuids, mapper, dialog, client, history>>

\* handleSave of the settings dialog under App: saveSettings, then onSave
\* runs loadData.
SaveAndReload(l, s) ==
    /\ AppQuiet /\ ~LoadingScreen
    /\ ~app.loads[l].active
    /\ lsSettings' = StoredSettings(s)
    /\ LET settings == GetSettings(StoredSettings(s))
       IN  app' = [StartLoad(l) EXCEPT
                     !.loads[l].reads = <<StartRead("getProducts", settings),
                                          StartRead("getInspectors", settings),
                                          StartRead("getQCLogs", settings)>>]
    /\ UNCHANGED <<lsLogs, remote, calls, uuids, mapper, dialog, client, history>>

\* The buttons of the navigation bar.
SetCurrentView(v) ==
    /\ AppQuiet /\ ~LoadingScreen
    /\ app.currentView # v
    /\ app' = [app EXCEPT !.currentView = v]
    /\ UNCHANGED <<lsLogs, lsSettings, remote, calls, uuids, mapper, dialog, client, history>>

\* The metadata request of a read of loadData ends.
LoadMetaResponse(l, i, outcome) ==
    /\ AppQuiet
    /\ app.loads[l].active /\ app.loads[l].reads[i].pc = "meta"
    /\ app' = [app EXCEPT !.loads[l].reads[i] =
                  AfterResolve(@, ResolveSheetNames(@.svc, outcome, remote.tabs))]
    /\ UNCHANGED <<lsLogs, lsSettings, remote, calls, uuids, mapper, dialog, client, history>>

\* The values request of a read of loadData ends.
LoadValuesResponse(l, i, outcome, now) ==
    /\ AppQuiet
    /\ app.loads[l].active /\ app.loads[l].reads[i].pc = "data"
    /\ LET call == app.loads[l].reads[i]
           op == call.op
           title == CASE op = "getProducts" -> call.svc.productSheetTitle
                      [] op = "getInspectors" -> call.svc.userSheetTitle
                      [] OTHER -> call.svc.logSheetTitle
           cols == CASE op = "getProducts" -> 4
                     [] op = "getInspectors" -> 2
                     [] OTHER -> 9
           rows == RowsOf(title, cols, outcome)
           r == CASE op = "getProducts" -> FetchProducts(outcome, rows)
                  [] op = "getInspectors" -> FetchInspectors(outcome, rows)
                  [] OTHER -> FetchLogs(outcome, rows, uuids, now)
           drawn == IF op = "getQCLogs" THEN Drawn(rows, Len(rows)) ELSE 0
           answered == [call EXCEPT !.http = outcome, !.rows = rows,
                                    !.fetched = r.value, !.threw = r.threw]
       IN  /\ ValuesOutcome(title, outcome)
           /\ uuids + drawn <= MaxUuids
           /\ uuids' = uuids + drawn
           /\ app' = [app EXCEPT !.loads[l].reads[i] =
                         CASE op = "getProducts" -> GetProductsAfter(answered, r)
                           [] op = "getInspectors" -> GetInspectorsAfter(answered, r)
                           [] OTHER -> GetQCLogsAfter(answered, r)]
    /\ UNCHANGED <<lsLogs, lsSettings, remote, calls, mapper, dialog, client, history>>

\* The 300 ms timer of the fallback of a read of loadData fires.
LoadTimerFire(l, i) ==
    /\ AppQuiet
    /\ app.loads[l].active /\ app.loads[l].reads[i].pc = "timer"
    /\ app' = [app EXCEPT !.loads[l].reads[i] =
                  Settle(@, "resolved", Fallback(@.op, lsLogs))]
    /\ UNCHANGED <<lsLogs, lsSettings, remote, calls, uuids, mapper, dialog, client, history>>

\* loadData after its await: the three lists are set and the connection flag
\* is read from the settings; a rejection is logged; loading ends either way.
LoadDataSettle(l) ==
    /\ app.mounted /\ AllSettled(l)
    /\ LET reads == app.loads[l].reads
           settings == GetSettings(lsSettings)
       IN  app' = IF \E i \in 1..3 : reads[i].outcome = "rejected"
                     \/ PropertyThrows(settings)
                  THEN [app EXCEPT !.loading = FALSE, !.loads[l] = NoLoad,
                                   !.products = IF PropertyThrows(settings)
                                                   /\ \A i \in 1..3 : reads[i].outcome = "resolved"
                                                THEN reads[1].result ELSE @,
                                   !.inspectors = IF PropertyThrows(settings)
                                                     /\ \A i \in 1..3 : reads[i].outcome = "resolved"
                                                  THEN reads[2].result ELSE @,
                                   !.logs = IF PropertyThrows(settings)
                                               /\ \A i \in 1..3 : reads[i].outcome = "resolved"
                                            THEN reads[3].result ELSE @]
                  ELSE [app EXCEPT !.products = reads[1].result,
                                   !.inspectors = reads[2].result,
                                   !.logs = reads[3].result,
                                   !.isConnected = ~Falsy(settings.googleAccessToken),
                                   !.loading = FALSE, !.loads[l] = NoLoad]
    /\ UNCHANGED <<lsLogs, lsSettings, remote, calls, uuids, mapper, dialog, client, history>>

\* handleCreateLog up to its await, called by the submit of the form of the
\* NEW_ENTRY view, whose button is disabled while a submit is pending.
HandleCreateLog(log, now) ==
    /\ AppQuiet /\ ~LoadingScreen
    /\ app.currentView = View.NEW_ENTRY
    /\ ~app.create.active
    /\ uuids < MaxUuids
    /\ LET newLog == NewLog(log, UUID(uuids + 1), now)
       IN  IF Iterable(GetQCLogsSync(lsLogs))
           THEN /\ lsLogs' = UpdatedLogs(newLog, lsLogs)
                /\ app' = [app EXCEPT !.create =
                              [active |-> TRUE,
                               call |-> StartSave(log, newLog, GetSettings(lsSettings))]]
                /\ history' = Append(history, newLog)
           ELSE /\ app' = [app EXCEPT !.create =
                              [active |-> TRUE,
                               call |-> Settle([IdleCall EXCEPT !.op = "saveQCLog",
                                                                !.arg = <<log>>,
                                                                !.newLog = <<newLog>>],
                                               "rejected", <<>>)]]
                /\ UNCHANGED <<lsLogs, history>>
    /\ uuids' = uuids + 1
    /\ UNCHANGED <<lsSettings, remote, calls, mapper, dialog, client>>

\* The metadata request of the pending save ends.
CreateMetaResponse(outcome) ==
    /\ AppQuiet
    /\ app.create.call.pc = "meta"
    /\ app' = [app EXCEPT !.create.call =
                  AfterResolve(@, ResolveSheetNames(@.svc, outcome, remote.tabs))]
    /\ UNCHANGED <<lsLogs, lsSettings, remote, calls, uuids, mapper, dialog, client, history>>

\* The append request of the pending save ends.
CreateAppendResponse(outcome) ==
    /\ AppQuiet
    /\ app.create.call.pc = "append"
    /\ ValuesOutcome(app.create.call.svc.logSheetTitle, outcome)
    /\ LET r == AppendLog(outcome)
       IN  /\ app' = [app EXCEPT !.create.call =
                         SaveQCLogAfter([@ EXCEPT !.http = outcome, !.threw = r.threw], r)]
           /\ lsLogs' = SaveQCLogCache(lsLogs, app.create.call, r)
    /\ remote' = IF outcome = "ok"
                 THEN Appended(remote, app.create.call.svc.logSheetTitle,
                               LogToRow(app.create.call.newLog[1]))
                 ELSE remote
    /\ UNCHANGED <<lsSettings, calls, uuids, mapper, dialog, client, history>>

\* handleCreateLog after its await: the new log is put in front of the list
\* and the LOGS view is shown; a rejection leaves the state as it is.
HandleCreateLogSettle ==
    /\ app.mounted /\ app.create.call.pc = "done"
    /\ app' = IF app.create.call.outcome = "resolved"
              THEN [app EXCEPT !.logs = app.create.call.result \o @,
                               !.currentView = View.LOGS, !.create = NoCreate]
              ELSE [app EXCEPT !.create = NoCreate]
    /\ UNCHANGED <<lsLogs, lsSettings, remote, calls, uuids, mapper, dialog, client, history>>

NoMapper == [pc |-> "off"]

\* A fresh browser profile connected to one of the spreadsheets.
Init ==
    /\ lsLogs = NoItem
    /\ lsSettings = [raw |-> "null", value |-> DefaultSettings]
    /\ remote \in RemoteStores
    /\ calls = [c \in Calls |-> IdleCall]
    /\ uuids = 0
    /\ dialog = InitialDialog
    /\ client = NoClient
    /\ mapper = NoMapper
    /\ history = <<>>
    /\ app = NoApp

\* The journal: saveQCLog, getQCLogs and clearLogs under changing settings.
Next ==
    \/ \E c \in Calls : GetQCLogsCall(c)
    \/ \E c \in Calls : \E log \in LogInputs : \E t \in Times : SaveQCLogCall(c, log, t)
    \/ \E c \in Calls : \E o \in MetaOutcomes : MetaResponse(c, o)
    \/ \E c \in Calls : \E o \in HttpOutcomes : \E t \in Times : LogsResponse(c, o, t)
    \/ \E c \in Calls : \E o \in HttpOutcomes : AppendResponse(c, o)
    \/ \E c \in Calls : TimerFire(c)
    \/ \E c \in Calls : Return(c)
    \/ ClearLogs
    \/ \E s \in SettingsChoices : SaveSettings(s)

Spec == Init /\ [][Next]_vars

\* The writes of the facade alone: saves, clearLogs and saveSettings.
NextSave ==
    \/ \E c \in Calls : \E log \in LogInputs : \E t \in Times : SaveQCLogCall(c, log, t)
    \/ \E c \in Calls : \E o \in MetaOutcomes : MetaResponse(c, o)
    \/ \E c \in Calls : \E o \in HttpOutcomes : AppendResponse(c, o)
    \/ \E c \in Calls : Return(c)
    \/ ClearLogs
    \/ \E s \in SettingsChoices : SaveSettings(s)

SpecSave == Init /\ [][NextSave]_vars

\* What earlier sessions may have left under STORAGE_KEY_LOGS.
PersistedCaches ==
    { NoItem,
      UpdatedLogs(NewLog(CHOOSE x \in LogInputs : x.status = QCStatus.FAIL, "uuid-0", 0),
                  NoItem) }

InitReads ==
    /\ lsLogs \in PersistedCaches
    /\ lsSettings = [raw |-> "null", value |-> DefaultSettings]
    /\ remote \in RemoteStores
    /\ calls = [c \in Calls |-> IdleCall]
    /\ uuids = 0
    /\ dialog = InitialDialog
    /\ client = NoClient
    /\ mapper = NoMapper
    /\ history = Reverse(GetQCLogsSync(lsLogs))
    /\ app = NoApp

\* The three reads of the facade under changing settings.
NextReads ==
    \/ \E c \in Calls : GetProductsCall(c)
    \/ \E c \in Calls : GetInspectorsCall(c)
    \/ \E c \in Calls : GetQCLogsCall(c)
    \/ \E c \in Calls : \E o \in MetaOutcomes : MetaResponse(c, o)
    \/ \E c \in Calls : \E o \in HttpOutcomes : ProductsResponse(c, o)
    \/ \E c \in Calls : \E o \in HttpOutcomes : InspectorsResponse(c, o)
    \/ \E c \in Calls : \E o \in HttpOutcomes : \E t \in Times : LogsResponse(c, o, t)
    \/ \E c \in Calls : TimerFire(c)
    \/ \E c \in Calls : Return(c)
    \/ \E s \in SettingsChoices : SaveSettings(s)

SpecReads == InitReads /\ [][NextReads]_vars

\* What may be found under STORAGE_KEY_LOGS: nothing, a saved sequence, a text
\* that is not JSON, the text `null`, the text `{}`.
StoredLogItems ==
    PersistedCaches \cup
    { [raw |-> k, items |-> <<>>] : k \in {"garbage", "json-null", "json-object"} }

\* What may be found under STORAGE_KEY_SETTINGS.
StoredSettingsItems ==
    { [raw |-> "null", value |-> DefaultSettings] }
    \cup { StoredSettings(s) : s \in SettingsChoices }
    \cup { [raw |-> k, value |-> DefaultSettings] :
               k \in {"garbage", "json-null", "json-object"} }

InitStored ==
    /\ lsLogs \in StoredLogItems
    /\ lsSettings \in StoredSettingsItems
    /\ remote = CHOOSE r \in RemoteStores : TabExists(r, "Log")
    /\ calls = [c \in Calls |-> IdleCall]
    /\ uuids = 0
    /\ dialog = InitialDialog
    /\ client = NoClient
    /\ mapper = NoMapper
    /\ history = <<>>
    /\ app = NoApp

\* The facade over whatever localStorage held when the page was loaded.
NextStored ==
    \/ \E c \in Calls : GetSettingsCall(c)
    \/ \E c \in Calls : GetProductsCall(c)
    \/ \E c \in Calls : GetInspectorsCall(c)
    \/ \E c \in Calls : GetQCLogsCall(c)
    \/ \E c \in Calls : \E log \in LogInputs : \E t \in Times : SaveQCLogCall(c, log, t)
    \/ \E c \in Calls : \E o \in MetaOutcomes : MetaResponse(c, o)
    \/ \E c \in Calls : \E o \in HttpOutcomes : ProductsResponse(c, o)
    \/ \E c \in Calls : \E o \in HttpOutcomes : InspectorsResponse(c, o)
    \/ \E c \in Calls : \E o \in HttpOutcomes : \E t \in Times : LogsResponse(c, o, t)
    \/ \E c \in Calls : \E o \in HttpOutcomes : AppendResponse(c, o)
    \/ \E c \in Calls : TimerFire(c)
    \/ \E c \in Calls : Return(c)

SpecStored == InitStored /\ [][NextStored]_vars

\* The settings dialog next to the operations of the facade, issued one at a
\* time.
NextSettings ==
    \/ OpenDialog
    \/ \E f \in DOMAIN FieldValues : \E v \in FieldValues[f] : EditField(f, v)
    \/ HandleAuthClick
    \/ \E a \in TokenResponses : TokenCallback(a)
    \/ HandleSave
    \/ CloseDialog
    \/ GetProductsCall(1)
    \/ GetInspectorsCall(1)
    \/ GetQCLogsCall(1)
    \/ \E log \in {l \in LogInputs : l.status = QCStatus.FAIL} : SaveQCLogCall(1, log, 0)
    \/ \E c \in Calls : \E o \in MetaOutcomes : MetaResponse(c, o)
    \/ \E c \in Calls : \E o \in HttpOutcomes : ProductsResponse(c, o)
    \/ \E c \in Calls : \E o \in HttpOutcomes : InspectorsResponse(c, o)
    \/ \E c \in Calls : \E o \in HttpOutcomes : \E t \in Times : LogsResponse(c, o, t)
    \/ \E c \in Calls : \E o \in HttpOutcomes : AppendResponse(c, o)
    \/ \E c \in Calls : TimerFire(c)
    \/ \E c \in Calls : Return(c)
    \/ ClearLogs

InitSettings == Init /\ TabExists(remote, "Log")

SpecSettings == InitSettings /\ [][NextSettings]_vars

\* One SheetsService instance, constructed with a token, on one of the
\* spreadsheets.
InitClient ==
    /\ lsLogs = NoItem
    /\ lsSettings = [raw |-> "null", value |-> DefaultSettings]
    /\ remote \in RemoteStores
    /\ calls = [c \in Calls |-> IdleCall]
    /\ uuids = 0
    /\ mapper = NoMapper
    /\ dialog = InitialDialog
    /\ client = [NoClient EXCEPT !.svc = NewService("ya29.token", DEFAULT_SHEET_ID)]
    /\ history = <<>>
    /\ app = NoApp

NextClient ==
    \/ \E c \in Calls : \E op \in ClientMethods : ClientCall(c, op)
    \/ \E c \in Calls : \E o \in MetaOutcomes : ClientMetaResponse(c, o)
    \/ \E c \in Calls : \E o \in HttpOutcomes : \E t \in Times : ClientValuesResponse(c, o, t)
    \/ \E c \in Calls : \E o \in HttpOutcomes : ClientAppendResponse(c, o)
    \/ \E c \in Calls : Return(c)

SpecClient == InitClient /\ [][NextClient]_vars

\* The reading methods of one instance, calls overlapping.
NextOverlap ==
    \/ \E c \in Calls : \E op \in ClientMethods \ {"appendLog"} : ClientCall(c, op)
    \/ \E c \in Calls : \E o \in MetaOutcomes : ClientMetaResponse(c, o)
    \/ \E c \in Calls : \E o \in HttpOutcomes : \E t \in Times : ClientValuesResponse(c, o, t)
    \/ \E c \in Calls : Return(c)

SpecOverlap == InitClient /\ [][NextOverlap]_vars

\* The methods of one instance, called one at a time, on a spreadsheet with
\* any of the tab lists.
InitResolve ==
    /\ lsLogs = NoItem
    /\ lsSettings = [raw |-> "null", value |-> DefaultSettings]
    /\ remote \in ClientStores
    /\ calls = [c \in Calls |-> IdleCall]
    /\ uuids = 0
    /\ mapper = NoMapper
    /\ dialog = InitialDialog
    /\ client = [NoClient EXCEPT !.svc = NewService("ya29.token", DEFAULT_SHEET_ID)]
    /\ history = <<>>
    /\ app = NoApp

NextResolve ==
    \/ \E op \in ClientMethods : ClientCall(1, op)
    \/ \E c \in Calls : \E o \in MetaOutcomes : ClientMetaResponse(c, o)
    \/ \E c \in Calls : \E o \in HttpOutcomes : \E t \in Times : ClientValuesResponse(c, o, t)
    \/ \E c \in Calls : \E o \in HttpOutcomes : ClientAppendResponse(c, o)
    \/ \E c \in Calls : Return(c)

SpecResolve == InitResolve /\ [][NextResolve]_vars

\* ------------------------------------------- the Record Mapper on its own

\* InspectionLogs over a few values of every field, the empty and the absent
\* ones included.
MapperLogs ==
    [id : {"", "uuid-1", "L-2"},
     productId : {"P-7"},
     productName : {"Steel Bolt"},
     shippingOrderNo : {"", "SO-1"},
     checkDate : {"2024-01-01", "2024-01-03"},
     inspector : {"", "Lin"},
     notes : {"", "dented"},
     status : {QCStatus.PASS, QCStatus.FAIL, QCStatus.WARNING},
     aiAnalysis : {Undefined, "", "Defect: dent"},
     timestamp : {5, 60}]

StatusCells == {"PASS", "FAIL", "WARNING", "fail", "Warning", "OK", ""}

\* Journal rows as the spreadsheet may hold them: any status cell, and rows
\* that end before the status column.
MapperRows ==
    { <<"r-1", "2024-01-02", "SO-1", "P-7", "Steel Bolt", "Lin", st, "dented", "ai">> :
        st \in StatusCells }
    \cup { <<"r-2", "2024-01-02", "SO-1", "P-7", "Steel Bolt", "Lin">>, <<"r-3">>, <<>> }

InitMapper ==
    /\ lsLogs = NoItem
    /\ lsSettings = [raw |-> "null", value |-> DefaultSettings]
    /\ remote = CHOOSE r \in RemoteStores : TabExists(r, "Log")
    /\ calls = [c \in Calls |-> IdleCall]
    /\ uuids = 0
    /\ dialog = InitialDialog
    /\ client = NoClient
    /\ history = <<>>
    /\ app = NoApp
    /\ \E t \in Times :
          \/ \E l \in MapperLogs :
                mapper = [pc |-> "log", log |-> <<l>>, row |-> <<>>, back |-> <<>>, now |-> t]
          \/ \E r \in MapperRows :
                mapper = [pc |-> "row", log |-> <<>>, row |-> <<r>>, back |-> <<>>, now |-> t]

\* appendLog's mapping of the log to the row it sends.
MapToRow ==
    /\ mapper.pc = "log"
    /\ mapper' = [mapper EXCEPT !.pc = "row", !.row = <<LogToRow(mapper.log[1])>>]
    /\ UNCHANGED <<lsLogs, lsSettings, remote, calls, uuids, dialog, client, app, history>>

\* fetchLogs' mapping of a row to a log.
MapToLog ==
    /\ mapper.pc = "row"
    /\ mapper' = [mapper EXCEPT !.pc = "back",
                                !.back = <<RowToLog(mapper.row[1], UUID(uuids + 1), mapper.now)>>]
    /\ UNCHANGED <<lsLogs, lsSettings, remote, calls, uuids, dialog, client, app, history>>

NextMapper == MapToRow \/ MapToLog

SpecMapper == InitMapper /\ [][NextMapper]_vars

\* Catalog rows as the spreadsheet may hold them: with and without an id, a
\* name and a category, the price cell missing, empty, plain, with a currency
\* symbol, or not a number.
PriceCells == {"", "$", "45.00", "$120.50", "abc", "$abc", "12abc", "0", "7"}

ProductRows ==
    { <<id, name, category>> :
        id \in {"P-7", "", "UNKNOWN"}, name \in {"Steel Bolt", ""},
        category \in {"Hardware", ""} }
    \cup { <<id, name, category, price>> :
             id \in {"P-7", "", "UNKNOWN"}, name \in {"Steel Bolt", ""},
             category \in {"Hardware", ""}, price \in PriceCells }

InitProduct ==
    /\ lsLogs = NoItem
    /\ lsSettings = [raw |-> "null", value |-> DefaultSettings]
    /\ remote = CHOOSE r \in RemoteStores : TabExists(r, "Log")
    /\ calls = [c \in Calls |-> IdleCall]
    /\ uuids = 0
    /\ dialog = InitialDialog
    /\ client = NoClient
    /\ history = <<>>
    /\ app = NoApp
    /\ \E r \in ProductRows :
          mapper = [pc |-> "product-row", log |-> <<>>, row |-> <<r>>, back |-> <<>>, now |-> 0]

\* fetchProducts' mapping of a row to a Product.
MapToProduct ==
    /\ mapper.pc = "product-row"
    /\ mapper' = [mapper EXCEPT !.pc = "product", !.back = <<RowToProduct(mapper.row[1])>>]
    /\ UNCHANGED <<lsLogs, lsSettings, remote, calls, uuids, dialog, client, app, history>>

NextProduct == MapToProduct

SpecProduct == InitProduct /\ [][NextProduct]_vars

\* The App on a fresh browser profile.
InitApp ==
    /\ lsLogs = NoItem
    /\ lsSettings = [raw |-> "null", value |-> DefaultSettings]
    /\ remote = CHOOSE r \in RemoteStores : TabExists(r, "Log")
    /\ calls = [c \in Calls |-> IdleCall]
    /\ uuids = 0
    /\ dialog = InitialDialog
    /\ client = NoClient
    /\ mapper = NoMapper
    /\ history = <<>>
    /\ app = InitialApp

NextApp ==
    \/ \E l \in Loads : LoadData(l)
    \/ \E l \in Loads : \E s \in SettingsChoices : SaveAndReload(l, s)
    \/ \E v \in {View.DASHBOARD, View.NEW_ENTRY, View.LOGS} : SetCurrentView(v)
    \/ \E l \in Loads : \E i \in 1..3 : \E o \in MetaOutcomes : LoadMetaResponse(l, i, o)
    \/ \E l \in Loads : \E i \in 1..3 : \E o \in HttpOutcomes :
          LoadValuesResponse(l, i, o, 0)
    \/ \E l \in Loads : \E i \in 1..3 : LoadTimerFire(l, i)
    \/ \E l \in Loads : LoadDataSettle(l)
    \/ \E log \in {x \in LogInputs : x.status = QCStatus.FAIL} : HandleCreateLog(log, 0)
    \/ \E o \in MetaOutcomes : CreateMetaResponse(o)
    \/ \E o \in HttpOutcomes : CreateAppendResponse(o)
    \/ HandleCreateLogSettle

SpecApp == InitApp /\ [][NextApp]_vars

\* ------------------------------------------------------------------ claims

Failed == {"status", "network"}

\* The persisted log sequence as the program reads it.
Cache == GetQCLogsSync(lsLogs)

InputFields ==
    {"productId", "productName", "shippingOrderNo", "checkDate", "inspector",
     "notes", "status", "aiAnalysis"}

\* rec carries every field of the saveQCLog argument x.
BuiltFrom(rec, x) == \A f \in InputFields : rec[f] = x[f]

\* Call c starts, respectively settles, in the step.
Starts(c, op) == calls[c].pc = "idle" /\ calls'[c].op = op
Resolves(c, op) == calls[c].pc # "done" /\ calls'[c].pc = "done" /\ calls'[c].op = op

SaveDone(c) == calls[c].op = "saveQCLog" /\ calls[c].pc = "done"
SavePending(c) == calls[c].op = "saveQCLog" /\ calls[c].pc \in {"meta", "append"}

\* C1 as stated: at the moment any saveQCLog(x) call resolves, the first
\* element of the persisted log sequence is the record built from x.
C1_HeadWhenResolved ==
    [][\A c \in Calls : Resolves(c, "saveQCLog") =>
          /\ GetQCLogsSync(lsLogs') # <<>>
          /\ GetQCLogsSync(lsLogs')[1] = calls'[c].newLog[1]]_vars

\* C1 amended: the record built from x (x's fields, the generated id and
\* timestamp) is the first element of the persisted sequence once the call's
\* synchronous part has run, with or without a token, and while the call's
\* remote requests are pending it stays the first element in every step that
\* is neither the start of another saveQCLog nor clearLogs; so it is the first
\* element when the call resolves unless such a step came in between.
C1_HeadUntilOverwritten ==
    [][\A c \in Calls :
          /\ Starts(c, "saveQCLog") =>
                /\ GetQCLogsSync(lsLogs') # <<>>
                /\ GetQCLogsSync(lsLogs')[1] = calls'[c].newLog[1]
                /\ BuiltFrom(GetQCLogsSync(lsLogs')[1], calls'[c].arg[1])
                /\ GetQCLogsSync(lsLogs')[1].id = UUID(uuids')
                /\ GetQCLogsSync(lsLogs')[1].timestamp \in Times
          /\ ( /\ SavePending(c)
               /\ Cache # <<>> /\ Cache[1] = calls[c].newLog[1]
               /\ ~ClearLogs
               /\ ~\E d \in Calls \ {c} : Starts(d, "saveQCLog") )
             => /\ GetQCLogsSync(lsLogs') # <<>>
                /\ GetQCLogsSync(lsLogs')[1] = calls[c].newLog[1]]_vars

\* A save whose append failed has resolved, its record heading a cache that
\* already held an earlier record.
C1_Witness ==
    \E c \in Calls :
        /\ SaveDone(c) /\ calls[c].http \in Failed
        /\ Len(Cache) >= 2 /\ Cache[1] = calls[c].newLog[1]

\* C2: saveQCLog never rejects; it resolves with the record it constructed
\* (x's fields, the generated id and timestamp), whether the append succeeded,
\* failed (network error or non-success status) or was not attempted.
C2_SaveResolvesWithRecord ==
    \A c \in Calls :
        /\ calls[c].op = "saveQCLog" => calls[c].outcome # "rejected"
        /\ SaveDone(c) =>
              /\ calls[c].outcome = "resolved"
              /\ Len(calls[c].result) = 1
              /\ BuiltFrom(calls[c].result[1], calls[c].arg[1])
              /\ calls[c].result[1].id \in {UUID(n) : n \in 1..uuids}
              /\ calls[c].result = calls[c].newLog

\* appendLog threw on a non-success status and the call is settled.
C2_Witness ==
    \E c \in Calls : SaveDone(c) /\ calls[c].http = "status" /\ calls[c].threw

\* The local write is the first effect of a save and happens once.
WriteFirst(cs, c) ==
    cs[c].op = "saveQCLog" =>
        /\ cs[c].events # <<>>
        /\ cs[c].events[1] = "write"
        /\ \A i \in 2..Len(cs[c].events) : cs[c].events[i] \in {"meta", "append"}

\* C3: in every saveQCLog the local write precedes every remote request of the
\* call (metadata, append), and no later step of the call, a failed append
\* included, changes what is persisted.
C3_WriteBeforeRemote ==
    [][\A c \in Calls :
          /\ WriteFirst(calls', c)
          /\ (calls[c].op = "saveQCLog" /\ calls'[c] # calls[c]) => lsLogs' = lsLogs]_vars

\* A save went through write, metadata request and a failed append, and its
\* record is still in the cache.
C3_Witness ==
    \E c \in Calls :
        /\ SaveDone(c) /\ calls[c].http \in Failed
        /\ calls[c].events = <<"write", "meta", "append">>
        /\ \E i \in 1..Len(Cache) : Cache[i] = calls[c].newLog[1]

\* C4: with a token, when the values request of the journal fails (network
\* error or non-success status), getQCLogs resolves with the cache's current
\* log sequence.
C4_FallbackOnFailure ==
    [][\A c \in Calls :
          (Resolves(c, "getQCLogs") /\ calls'[c].http \in Failed)
          => calls'[c].result = GetQCLogsSync(lsLogs')]_vars

ReadDone(c, op) == calls[c].op = op /\ calls[c].pc = "done"

\* The sample data a catalog read falls back to.
Sample(op) == IF op = "getProducts" THEN INITIAL_PRODUCTS ELSE INITIAL_INSPECTORS

\* C5: getProducts and getInspectors return the built-in sample data when no
\* token is persisted, when the remote fetch yields nothing and when it
\* fails; they return the remote result, which is not the sample data, exactly
\* when a token is present and the remote fetch yields a non-empty result.
C5_SampleOrRemote ==
    \A c \in Calls : \A op \in {"getProducts", "getInspectors"} :
        ReadDone(c, op) =>
            LET token == calls[c].svc.accessToken # ""
                mapped == IF op = "getProducts" THEN RowsToProducts(calls[c].rows)
                          ELSE RowsToInspectors(calls[c].rows)
                remoteResult == token /\ calls[c].http = "ok" /\ mapped # <<>>
            IN  /\ token <=> calls[c].http # "none"
                /\ remoteResult => calls[c].result = mapped /\ calls[c].result # Sample(op)
                /\ ~remoteResult => calls[c].result = Sample(op)

\* getProducts fell back to the sample catalog after its values request was
\* answered with a non-success status.
C5_Witness ==
    \E c \in Calls :
        /\ ReadDone(c, "getProducts") /\ calls[c].http = "status"
        /\ calls[c].result = INITIAL_PRODUCTS

\* C6: with a token, when the journal's values request succeeds, getQCLogs
\* returns one log per journal row, the last stored row first, each carrying
\* the row's cells, also when there is no row; the cache has no part in it.
C6_RemoteAuthoritative ==
    \A c \in Calls :
        (ReadDone(c, "getQCLogs") /\ calls[c].http = "ok") =>
            LET rows == calls[c].rows
                res == calls[c].result
                Carries(v, cell) == ~Falsy(cell) => v = cell
            IN  /\ Len(res) = Len(rows)
                /\ \A i \in 1..Len(res) :
                      LET row == rows[Len(rows) + 1 - i]
                      IN  /\ Carries(res[i].id, Cell(row, 0))
                          /\ Carries(res[i].checkDate, Cell(row, 1))
                          /\ Carries(res[i].shippingOrderNo, Cell(row, 2))
                          /\ Carries(res[i].productId, Cell(row, 3))
                          /\ Carries(res[i].productName, Cell(row, 4))
                          /\ Carries(res[i].inspector, Cell(row, 5))
                          /\ Carries(res[i].notes, Cell(row, 7))
                          /\ Carries(res[i].aiAnalysis, Cell(row, 8))

\* The journal was empty and the cache was not: getQCLogs returned nothing.
C6_Witness ==
    \E c \in Calls :
        /\ ReadDone(c, "getQCLogs") /\ calls[c].http = "ok"
        /\ calls[c].rows = <<>> /\ calls[c].result = <<>>
        /\ Cache # <<>>

\* C7: getProducts, getInspectors and getQCLogs never reject, whatever the
\* settings and whatever the metadata and values requests end with.
C7_ReadsNeverReject ==
    \A c \in Calls :
        /\ calls[c].outcome # "rejected"
        /\ calls[c].pc = "done" => calls[c].outcome = "resolved"

\* fetchProducts threw and getProducts resolved all the same.
C7_Witness ==
    \E c \in Calls :
        /\ ReadDone(c, "getProducts") /\ calls[c].threw
        /\ calls[c].outcome = "resolved"

\* The mapper was given a log, respectively has mapped a row back.
FromLog == mapper.pc = "back" /\ mapper.log # <<>>
RequiredNonEmpty(l) ==
    /\ l.id # "" /\ l.checkDate # "" /\ l.productId # ""
    /\ l.productName # "" /\ l.inspector # ""

RoundTripFields ==
    {"id", "checkDate", "shippingOrderNo", "productId", "productName", "inspector",
     "status", "notes"}

\* C8 as stated: a log with non-empty required fields, mapped to a row and
\* back, has every field but the timestamp reproduced, aiAnalysis included.
C8_RoundTripAllFields ==
    (FromLog /\ RequiredNonEmpty(mapper.log[1])) =>
        \A f \in RoundTripFields \cup {"aiAnalysis"} : mapper.back[1][f] = mapper.log[1][f]

\* C8 amended: every field but the timestamp is reproduced, except that an
\* absent aiAnalysis comes back as the empty string.
C8_RoundTrip ==
    (FromLog /\ RequiredNonEmpty(mapper.log[1])) =>
        /\ \A f \in RoundTripFields : mapper.back[1][f] = mapper.log[1][f]
        /\ mapper.back[1].aiAnalysis =
              IF mapper.log[1].aiAnalysis = Undefined THEN "" ELSE mapper.log[1].aiAnalysis

\* A log with an annotation and an empty shipping order number went through
\* the row and came back with another timestamp.
C8_Witness ==
    /\ FromLog /\ RequiredNonEmpty(mapper.log[1])
    /\ mapper.log[1].aiAnalysis = "Defect: dent"
    /\ mapper.log[1].shippingOrderNo = ""
    /\ mapper.back[1].aiAnalysis = "Defect: dent"
    /\ mapper.back[1].timestamp # mapper.log[1].timestamp

\* C9: a row's status cell FAIL maps to FAIL, WARNING to WARNING, anything
\* else (unrecognized or missing) to PASS; a FAIL log comes back FAIL.
C9_StatusTotal ==
    mapper.pc = "back" =>
        LET cell == Cell(mapper.row[1], 6)
            status == mapper.back[1].status
        IN  /\ cell = "FAIL" => status = QCStatus.FAIL
            /\ cell = "WARNING" => status = QCStatus.WARNING
            /\ cell \notin {"FAIL", "WARNING"} => status = QCStatus.PASS
            /\ (mapper.log # <<>> /\ mapper.log[1].status = QCStatus.FAIL)
                  => status = QCStatus.FAIL

\* A row without a status cell was mapped to PASS.
C9_Witness ==
    /\ mapper.pc = "back" /\ mapper.log = <<>>
    /\ Cell(mapper.row[1], 6) = Undefined
    /\ mapper.back[1].status = QCStatus.PASS

\* C10: a saveQCLog turns the persisted sequence into the new record followed
\* by the previous sequence; without a token getQCLogs returns the records
\* saved since the cache was last empty, the latest first; after clearLogs the
\* local read is empty.
C10_CacheSequence ==
    [][/\ \A c \in Calls :
            /\ Starts(c, "saveQCLog") =>
                  GetQCLogsSync(lsLogs') = <<calls'[c].newLog[1]>> \o Cache
            /\ (Resolves(c, "getQCLogs") /\ calls'[c].http = "none") =>
                  calls'[c].result = Reverse(history)
       /\ ClearLogs => GetQCLogsSync(lsLogs') = <<>>]_vars

\* Without a token getQCLogs returned two saved records, the later first.
C10_Witness ==
    \E c \in Calls :
        /\ ReadDone(c, "getQCLogs") /\ calls[c].http = "none"
        /\ Len(history) = 2
        /\ calls[c].result = <<history[2], history[1]>>

\* The item is there and is not the JSON text of the expected shape.
Malformed(stored) == stored.raw \notin {"null", "json"}

\* C11: whatever is persisted under the two keys, a value of another shape is
\* treated as empty (no logs, default settings with an empty token) and no
\* call of getQCLogs, saveQCLog, getSettings, getProducts or getInspectors
\* ends with an error.
C11_MalformedIsEmpty ==
    \A c \in Calls :
        /\ calls[c].outcome # "rejected"
        /\ (ReadDone(c, "getSettings") /\ Malformed(lsSettings))
              => calls[c].result = <<DefaultSettings>>
        /\ (ReadDone(c, "getQCLogs") /\ calls[c].http = "none" /\ Malformed(lsLogs))
              => calls[c].result = <<>>
        /\ (calls[c].op \in {"getProducts", "getInspectors"} /\ calls[c].pc = "done"
               /\ Malformed(lsSettings))
              => calls[c].result = Sample(calls[c].op)

\* The identifiers of a sequence of logs are pairwise distinct.
DistinctIds(logs) ==
    \A i, j \in 1..Len(logs) : logs[i].id = logs[j].id => i = j

\* C12: an identifier is assigned once, when saveQCLog creates the log, and
\* never afterwards: a read mints none and returns each journal row under the
\* identifier stored in it, a save in flight keeps the identifier of its
\* record, and the identifiers in the cache, and those in a read's result, are
\* pairwise distinct.
C12_IdentifierAssignedOnce ==
    [][/\ \A c \in Calls :
            /\ (Resolves(c, "getQCLogs") /\ calls'[c].http = "ok") =>
                  /\ uuids' = uuids
                  /\ \A i \in 1..Len(calls'[c].result) :
                        calls'[c].result[i].id =
                            Cell(calls'[c].rows[Len(calls'[c].rows) + 1 - i], 0)
                  /\ DistinctIds(calls'[c].result)
            /\ (SavePending(c) /\ calls'[c].op = "saveQCLog") =>
                  calls'[c].newLog[1].id = calls[c].newLog[1].id
       /\ DistinctIds(GetQCLogsSync(lsLogs'))]_vars

\* C13: the persisted settings change only in handleSave: no operation of the
\* facade, no token callback, no edit of a field and no Cancel or close
\* changes them; after Save getSettings returns the object that was saved.
C13_SettingsFrame ==
    [][/\ lsSettings' # lsSettings => HandleSave
       /\ HandleSave => GetSettings(lsSettings') = dialog.settings]_vars

\* Settings were saved once; later the form got a token from the callback
\* and was closed without Save, and a facade call has settled since: what is
\* persisted has no token.
C13_Witness ==
    /\ lsSettings.raw = "json"
    /\ ~dialog.isOpen
    /\ dialog.settings.googleAccessToken = "ya29.oauth"
    /\ GetSettings(lsSettings).googleAccessToken = ""
    /\ GetSettings(lsSettings).googleClientId = "client-1"
    /\ \E c \in Calls : SaveDone(c)

\* The positions of the tabs of the connected spreadsheet's metadata list.
TabIndexes == 1..Len(remote.tabs)

HasTabWithId(id) == \E i \in TabIndexes : remote.tabs[i].sheetId = id

TitleOfTabWithId(id) ==
    remote.tabs[CHOOSE i \in TabIndexes :
                   /\ remote.tabs[i].sheetId = id
                   /\ \A j \in 1..(i - 1) : remote.tabs[j].sheetId # id].title

IsLogTab(i) == remote.tabs[i].title \in {"log", "Log", "LOG", "lOg", "loG", "LOg", "lOG", "LoG"}

\* C14: after a successful metadata fetch the catalog title of the instance
\* is the title of the tab whose identifier is 0 when there is one, else the
\* title of the first tab of the list, else (empty list) 'Sheet1'.
C14_CatalogTitle ==
    client.lastMeta = "ok" =>
        client.svc.productSheetTitle =
            IF HasTabWithId(0) THEN TitleOfTabWithId(0)
            ELSE IF Len(remote.tabs) > 0 THEN remote.tabs[1].title
            ELSE "Sheet1"

\* A successful resolution on a list without the tab 0 took the first tab's
\* title, and fetchProducts has issued its values request with it.
C14_Witness ==
    /\ client.lastMeta = "ok"
    /\ ~HasTabWithId(0) /\ Len(remote.tabs) > 0
    /\ remote.tabs[1].title # "Sheet1"
    /\ client.svc.productSheetTitle = remote.tabs[1].title
    /\ \E c \in Calls : /\ calls[c].op = "fetchProducts" /\ calls[c].pc = "data"
                        /\ calls[c].svc.productSheetTitle = remote.tabs[1].title

\* C15: after a successful metadata fetch the roster title is the title of
\* the tab whose identifier is 1687857950, else 'User', and the journal title
\* is the actual title of the first tab named 'log' in any letter case, else
\* the preset 'Log'; neither falls back to a position of the list.
C15_RosterAndJournalTitle ==
    client.lastMeta = "ok" =>
        /\ client.svc.userSheetTitle =
              IF HasTabWithId(1687857950) THEN TitleOfTabWithId(1687857950) ELSE "User"
        /\ client.svc.logSheetTitle =
              IF \E i \in TabIndexes : IsLogTab(i)
              THEN remote.tabs[CHOOSE i \in TabIndexes :
                                  /\ IsLogTab(i)
                                  /\ \A j \in 1..(i - 1) : ~IsLogTab(j)].title
              ELSE "Log"

\* A successful resolution on a non-empty list that has neither the roster
\* tab nor a journal tab kept both defaults.
C15_Witness ==
    /\ client.lastMeta = "ok"
    /\ Len(remote.tabs) > 0
    /\ ~HasTabWithId(1687857950)
    /\ \A i \in TabIndexes : ~IsLogTab(i)
    /\ client.svc.userSheetTitle = "User" /\ client.svc.logSheetTitle = "Log"
    /\ \E c \in Calls : calls[c].op = "fetchInspectors" /\ calls[c].pc = "data"

\* The metadata request of call c failed: a network error, a non-success
\* status, or a body without the expected fields.
MetaFailed(c) == \E o \in MetaOutcomes \ {"ok"} : ClientMetaResponse(c, o)

\* The call goes on to its data request with the titles of the instance.
GoesOnToData(c) ==
    /\ calls'[c].pc = "data"
    /\ calls'[c].svc = client'.svc
    /\ calls'[c].events = Append(calls[c].events,
                                 IF calls[c].op = "appendLog" THEN "append" ELSE "values")

\* C16 as stated: a failed metadata fetch leaves all three titles at their
\* defaults 'Sheet1', 'User' and 'Log', and the method goes on to its data
\* request with them.
C16_AllDefaultsAfterFailure ==
    [][\A c \in Calls :
          MetaFailed(c) =>
              /\ client'.svc.productSheetTitle = "Sheet1"
              /\ client'.svc.userSheetTitle = "User"
              /\ client'.svc.logSheetTitle = "Log"
              /\ GoesOnToData(c)]_vars

\* C17: over any calls of the four methods on one instance, overlapping ones
\* included, the instance issues at most one metadata request.
C17_OneMetadataRequest == client.metaRequests <= 1

\* A method call that has settled.
MethodDone(c, op) == calls[c].pc = "done" /\ calls[c].op = op

Rejected(c, error) == calls[c].outcome = "rejected" /\ calls[c].result = <<error>>

\* C18: fetchProducts rejects with its fetch-failure error whenever its
\* values request returns a non-success status, and appendLog rejects with
\* its save-failure error whenever its append request does.
C18_CatalogAndAppendReject ==
    \A c \in Calls :
        calls[c].http = "status" =>
            /\ MethodDone(c, "fetchProducts") =>
                   Rejected(c, "Failed to fetch products from sheet")
            /\ MethodDone(c, "appendLog") =>
                   Rejected(c, "Failed to save to Google Sheet")

\* An appendLog whose append request was refused has rejected, and the
\* journal tab holds no row of it.
C18_Witness ==
    \E c \in Calls :
        /\ MethodDone(c, "appendLog") /\ calls[c].http = "status"
        /\ calls[c].events = <<"meta", "append">>
        /\ Rejected(c, "Failed to save to Google Sheet")

\* C19: fetchInspectors and fetchLogs never reject; when their values
\* request fails on the network or returns a non-success status they resolve
\* with the empty sequence.
C19_RosterAndJournalResolve ==
    \A c \in Calls :
        MethodDone(c, "fetchInspectors") \/ MethodDone(c, "fetchLogs") =>
            /\ calls[c].outcome = "resolved"
            /\ calls[c].http \in {"status", "network"} => calls[c].result = <<>>

\* A fetchLogs whose request failed on the network has resolved with [].
C19_Witness ==
    \E c \in Calls :
        /\ MethodDone(c, "fetchLogs") /\ calls[c].http = "network"
        /\ calls[c].outcome = "resolved" /\ calls[c].result = <<>>

InCache(rec) == \E j \in 1..Len(Cache) : Cache[j] = rec

\* C20: two saveQCLog calls in flight together both proceed, each to its
\* own resolution with its own record, and once they have resolved the
\* persisted sequence holds both records: when a save has resolved, the cache
\* holds its record and the record of every save issued since the cache was
\* last cleared, whichever of them resolved first.
C20_ConcurrentSavesBothPersisted ==
    \A c \in Calls :
        SaveDone(c) =>
            /\ calls[c].outcome = "resolved" /\ calls[c].result = calls[c].newLog
            /\ \A i \in 1..Len(history) : InCache(history[i])

\* The save issued first resolves last: the other save was issued while it
\* was pending and has resolved and returned, and the cache holds both records.
C20_Witness ==
    \E c \in Calls :
        /\ SaveDone(c) /\ Len(history) = 2
        /\ calls[c].newLog[1] = history[1]
        /\ \A d \in Calls \ {c} : calls[d].pc = "idle"
        /\ InCache(history[1]) /\ InCache(history[2])
        /\ Len(Cache) = 2

\* The position of a record in a sequence that holds it.
Pos(seq, rec) == CHOOSE k \in 1..Len(seq) : seq[k] = rec

\* C21 as stated: the order of the records of two saves that were in flight
\* together follows the order of completion; when the save issued first
\* resolves after the other one has, its record is ahead of the other's.
C21_OrderByCompletion ==
    [][\A c \in Calls :
          Resolves(c, "saveQCLog") =>
              \A i, j \in 1..Len(history') :
                  ( /\ i < j
                    /\ history'[i] = calls'[c].newLog[1]
                    /\ \A d \in Calls : calls'[d].newLog # <<history'[j]>> )
                  => Pos(GetQCLogsSync(lsLogs'), history'[i])
                        < Pos(GetQCLogsSync(lsLogs'), history'[j])]_vars

\* C21, amended: the order of the records of two saves in the persisted
\* sequence follows the order in which the calls were issued, the record of
\* the call issued later first, whichever of the two completes first: the
\* cache is at every moment the saves issued since it was last cleared, newest
\* first.
C21_OrderByIssuance == Cache = Reverse(history)

\* The save issued first has resolved after the other one, and its record is
\* behind the other's.
C21_Witness ==
    \E c \in Calls :
        /\ SaveDone(c) /\ calls[c].events = <<"write", "meta", "append">>
        /\ \A d \in Calls \ {c} : calls[d].pc = "idle"
        /\ Len(history) = 2 /\ Len(Cache) = 2
        /\ Cache[2] = calls[c].newLog[1] /\ Cache[2] = history[1]
        /\ Cache[1] = history[2]

\* The records two saves may write.
TwoRecords ==
    { <<NewLog(x, "uuid-1", 0), NewLog(y, "uuid-2", 0)>> : x \in LogInputs, y \in LogInputs }

\* The persisted text after the local steps of two saves ran in the given
\* order: each step is the read, the prepend and the write of lines 301-303,
\* which no await separates.
AfterBoth(stored, first, second) == UpdatedLogs(second, UpdatedLogs(first, stored))

Holds(stored, rec) ==
    \E k \in 1..Len(GetQCLogsSync(stored)) : GetQCLogsSync(stored)[k] = rec

PriceText(cell) ==
    IF Chars(cell) # <<>> /\ Chars(cell)[1] = "$" THEN Tail(Chars(cell)) ELSE Chars(cell)

\* The text does not begin like a number.
NotANumber(cs) == cs = <<>> \/ ~IsDigit(cs[1])

\* C23: in the Product made of a catalog row the leading currency symbol
\* of the price cell is stripped before parsing, and standardPrice is 0 when
\* the cell is missing and when its content cannot be parsed as a number.
C23_PriceCell ==
    mapper.pc = "product" =>
        LET cell == Cell(mapper.row[1], 3)
            price == mapper.back[1].standardPrice
        IN  /\ cell = Undefined => price = Num(0)
            /\ cell = "$120.50" => price = Num(12050)
            /\ cell # Undefined /\ NotANumber(PriceText(cell)) => price = Num(0)

\* The requests of one kind a call has issued.
Issued(c, kind) == Len(SelectSeq(calls[c].events, LAMBDA e : e = kind))

\* The step is the answer to the append request of save c.
AppendAnswered(c) ==
    /\ calls[c].op = "saveQCLog" /\ calls[c].pc = "append"
    /\ calls'[c].pc = "done"

\* C24: a saveQCLog call issues its append request at most once and never
\* again after a failure; with an empty persisted token it issues no remote
\* request at all; and the remote store changes only by the one append of a
\* save whose request succeeded, so a record whose append failed is never sent
\* by a later operation.
C24_AppendAtMostOnce ==
    [][\A c \in Calls :
          /\ calls'[c].op = "saveQCLog" =>
                /\ Issued(c, "append")' <= 1 /\ Issued(c, "meta")' <= 1
          /\ ( /\ Starts(c, "saveQCLog")
               /\ ~PropertyThrows(GetSettings(lsSettings))
               /\ Falsy(GetSettings(lsSettings).googleAccessToken) )
             => calls'[c].pc = "done" /\ calls'[c].events = <<"write">>
          /\ AppendAnswered(c) /\ calls'[c].http # "ok" => remote' = remote
          /\ remote' # remote =>
                \E d \in Calls :
                    /\ AppendAnswered(d) /\ calls'[d].http = "ok"
                    /\ remote' = Appended(remote, calls[d].svc.logSheetTitle,
                                          LogToRow(calls[d].newLog[1]))]_vars

\* A later read of the journal was answered while the record of an earlier
\* save is in the cache and in no row of the spreadsheet.
C24_Witness ==
    /\ Len(Cache) >= 1
    /\ \A t \in DOMAIN remote.data :
          \A k \in 1..Len(remote.data[t]) : Cell(remote.data[t][k], 0) # Cache[1].id
    /\ ~Falsy(GetSettings(lsSettings).googleAccessToken)
    /\ \E c \in Calls :
          /\ calls[c].op = "getQCLogs" /\ calls[c].pc = "done" /\ calls[c].http = "ok"

\* Two records agree on identifier, check date, product, inspector, status
\* and notes.
SameRecord(a, b) ==
    \A f \in {"id", "checkDate", "productId", "productName", "inspector", "status", "notes"} :
        a[f] = b[f]

\* The row carries the fields of the record in the columns of the journal.
RowOf(row, rec) ==
    /\ Cell(row, 0) = rec.id /\ Cell(row, 1) = rec.checkDate
    /\ Cell(row, 3) = rec.productId /\ Cell(row, 4) = rec.productName
    /\ Cell(row, 5) = rec.inspector /\ Cell(row, 6) = rec.status
    /\ Cell(row, 7) = rec.notes

\* The row the step has added to the journal tab.
AddedRow(title) == remote'.data[title][Len(remote'.data[title])]

\* C25: in one saveQCLog call the record written to the cache, the record
\* whose fields make the row of the append, and the record the call returns
\* are one record: same identifier, check date, product, inspector, status and
\* notes.
C25_OneRecord ==
    [][\A c \in Calls :
          /\ ( Starts(c, "saveQCLog") /\ calls'[c].outcome # "rejected" ) =>
                /\ GetQCLogsSync(lsLogs') # <<>>
                /\ SameRecord(GetQCLogsSync(lsLogs')[1], calls'[c].newLog[1])
          /\ ( AppendAnswered(c) /\ calls'[c].http = "ok" ) =>
                /\ Len(remote'.data[calls[c].svc.logSheetTitle])
                      = Len(remote.data[calls[c].svc.logSheetTitle]) + 1
                /\ RowOf(AddedRow(calls[c].svc.logSheetTitle), calls[c].newLog[1])
          /\ Resolves(c, "saveQCLog") /\ calls'[c].outcome = "resolved" =>
                /\ Len(calls'[c].result) = 1
                /\ SameRecord(calls'[c].result[1], calls'[c].newLog[1])
                /\ calls'[c].newLog = (IF calls[c].op = "saveQCLog" THEN calls[c].newLog
                                       ELSE calls'[c].newLog)]_vars

\* A save has resolved after a successful append: the head of the cache, the
\* last row of the journal and the returned record carry one identifier.
C25_Witness ==
    \E c \in Calls :
        /\ SaveDone(c) /\ calls[c].http = "ok"
        /\ Cache # <<>> /\ SameRecord(Cache[1], calls[c].result[1])
        /\ LET rows == remote.data[calls[c].svc.logSheetTitle]
           IN  rows # <<>> /\ RowOf(rows[Len(rows)], calls[c].result[1])

\* The record is in no row of the spreadsheet: its append failed or was
\* never attempted.
LocalOnly(rec) ==
    \A t \in DOMAIN remote.data :
        \A k \in 1..Len(remote.data[t]) : Cell(remote.data[t][k], 0) # rec.id

\* C26: when the remote fetch of a getQCLogs call has completed, the
\* call's result holds no record that is only in the cache, such as the record
\* of a save whose append failed: local-only records are not merged into a
\* remote read.
C26_NoMergeOfLocalRecords ==
    [][\A c \in Calls :
          ( Resolves(c, "getQCLogs") /\ calls'[c].http # "none" ) =>
              \A k \in 1..Len(Cache) :
                  LocalOnly(Cache[k]) =>
                      \A j \in 1..Len(calls'[c].result) : calls'[c].result[j].id # Cache[k].id]_vars

\* A read after two saves returned the record whose append succeeded and not
\* the newer one, which is in the cache only.
C26_Witness ==
    \E c \in Calls :
        /\ calls[c].op = "getQCLogs" /\ calls[c].pc = "done" /\ calls[c].http = "ok"
        /\ Len(Cache) = 2 /\ LocalOnly(Cache[1]) /\ ~LocalOnly(Cache[2])
        /\ Len(calls[c].result) = 1
        /\ calls[c].result[1].id = Cache[2].id

InList(logs, rec) == \E k \in 1..Len(logs) : logs[k].id = rec.id

\* C27: a log that handleCreateLog has put in the list of the App stays
\* in the list until a loadData started after the save sets the list; a
\* loadData that was in flight when the save was made does not take it out.
C27_StaysUntilLaterLoad ==
    [][\A k \in 1..Len(history) :
          ( InList(app.logs, history[k]) /\ ~InList(app'.logs, history[k]) ) =>
              \E l \in Loads :
                  /\ app.loads[l].active /\ ~app'.loads[l].active
                  /\ app.loads[l].savesBefore >= k]_vars

\* C28: the list of the App never holds two entries with one identifier.
C28_NoDuplicateInList == app.mounted => DistinctIds(app.logs)

====
